---------------------------- MODULE Spec2Model ----------------------------
(***************************************************************************)
(* A model of libatasmart-rs: the ATA command dispatcher                   *)
(* (src/ffi/commands.rs), the disk type probe (src/disk/detect.rs), the    *)
(* Disk handle (src/disk/device.rs) and the blob parser                    *)
(* (src/smart/blob.rs).                                                    *)
(*                                                                         *)
(* Byte arrays are functions over 0..n-1, so that every index in the model *)
(* is the index written in the Rust source.                                *)
(***************************************************************************)
EXTENDS Integers, Sequences, FiniteSets, TLC

(***************************************************************************)
(* Bytes and bit operations (u8 arithmetic of the source).                 *)
(***************************************************************************)
RECURSIVE BitAnd(_, _)
BitAnd(a, b) ==
    IF a = 0 \/ b = 0 THEN 0
    ELSE (a % 2) * (b % 2) + 2 * BitAnd(a \div 2, b \div 2)

RECURSIVE BitOr(_, _)
BitOr(a, b) ==
    IF a = 0 THEN b
    ELSE IF b = 0 THEN a
    ELSE (IF (a % 2) + (b % 2) > 0 THEN 1 ELSE 0) + 2 * BitOr(a \div 2, b \div 2)

\* [0u8; n]
Zeros(n) == [i \in 0..(n - 1) |-> 0]

\* a 0-indexed array from a sequence, and back
Bytes0(seq) == [i \in 0..(Len(seq) - 1) |-> seq[i + 1]]
Seq1(arr) == [i \in 1..Cardinality(DOMAIN arr) |-> arr[i - 1]]

\* data.iter().all(|&b| b == 0)
AllZero(buf) == \A i \in DOMAIN buf : buf[i] = 0

\* Option<T>: None is the empty tuple, Some(x) the one-element tuple.
None == << >>
Some(x) == << x >>

(***************************************************************************)
(* Results.  Ok(v) and Err(e); the error names are the variants of         *)
(* error.rs, and "Io:<kind>" is Error::Io carrying a std::io::Error of     *)
(* that ErrorKind ("Io:Os" is last_os_error() of a failed ioctl or open).  *)
(***************************************************************************)
Ok(v) == [ok |-> TRUE, err |-> "", val |-> v]
Err(e) == [ok |-> FALSE, err |-> e, val |-> "()"]
Unit == "()"
\* a bool carried in a Result
Bool(b) == IF b THEN "true" ELSE "false"

ErrNotSupported == "NotSupported"
ErrSmartNotAvailable == "SmartNotAvailable"
ErrInvalidData == "InvalidData"
ErrNoData == "NoData"
ErrIoOs == "Io:Os"
ErrIoInvalidData == "Io:InvalidData"
ErrIoUnsupported == "Io:Unsupported"
ErrIoNotFound == "Io:NotFound"
\* a Rust panic, kept as an outcome of its own
ErrPanic == "panic"

(***************************************************************************)
(* ffi/ata.rs: command opcodes, SMART subcommands, directions.             *)
(***************************************************************************)
IdentifyDevice == 236      \* 0xEC
IdentifyPacketDevice == 161 \* 0xA1
Smart == 176               \* 0xB0
CheckPowerMode == 229      \* 0xE5

ReadData == 208            \* 0xD0
ReadThresholds == 209      \* 0xD1
ReturnStatus == 218        \* 0xDA

DirNone == "None"
DirIn == "In"
DirOut == "Out"
Directions == {DirNone, DirIn, DirOut}

\* ffi/scsi.rs
SG_DXFER_NONE == -1
SG_DXFER_TO_DEV == -2
SG_DXFER_FROM_DEV == -3

\* types/enums.rs: DiskType
AtaPassthrough16 == "AtaPassthrough16"
AtaPassthrough12 == "AtaPassthrough12"
LinuxIde == "LinuxIde"
Sunplus == "Sunplus"
Jmicron == "Jmicron"
Blob == "Blob"
Auto == "Auto"
DiskTypeNone == "None"
DiskTypes == {AtaPassthrough16, AtaPassthrough12, LinuxIde, Sunplus, Jmicron,
              Blob, Auto, DiskTypeNone}

(***************************************************************************)
(* ffi/commands.rs: AtaRegisters, a 12-byte register file.                 *)
(***************************************************************************)
AtaRegisters_new == Zeros(12)
set_features(r, v) == [r EXCEPT ![1] = v]
set_sector_count(r, v) == [r EXCEPT ![3] = v]
set_lba_low(r, v) == [r EXCEPT ![9] = v]
set_lba_mid(r, v) == [r EXCEPT ![8] = v]
set_lba_high(r, v) == [r EXCEPT ![7] = v]
set_device(r, v) == [r EXCEPT ![10] = v]
status(r) == r[11]
error(r) == r[2]

(***************************************************************************)
(* The kernel side of one SG_IO ioctl.  A reply is what the kernel does    *)
(* with one submission: ok = FALSE is ioctl() returning -1; otherwise the  *)
(* kernel has filled the sense buffer with `sense` and, for a transfer     *)
(* from the device, the data buffer with `data`.                           *)
(***************************************************************************)
Reply(ok, sense, data) == [ok |-> ok, sense |-> sense, data |-> data]

\* The SgIoHdr handed to sg_io_cmd, as far as the model records it.
Submission(cdb, sg_direction, data_len) ==
    [cdb |-> cdb, dxfer_direction |-> sg_direction, cmd_len |-> Cardinality(DOMAIN cdb),
     dxfer_len |-> data_len]

sg_direction(direction) ==
    CASE direction = DirNone -> SG_DXFER_NONE
      [] direction = DirIn -> SG_DXFER_FROM_DEV
      [] direction = DirOut -> SG_DXFER_TO_DEV

data_len(data) == IF data = None THEN 0 ELSE Cardinality(DOMAIN data[1])

\* What the caller's buffer holds after a successful ioctl.
Transferred(direction, data, reply) ==
    IF data # None /\ direction = DirIn THEN Some(reply.data) ELSE data

\* The outcome of a dispatcher function: its Result, the caller's register
\* file and data buffer afterwards, and the submissions it made, in order.
Outcome(res, registers, data, subs) ==
    [res |-> res, registers |-> registers, data |-> data, subs |-> subs]

\* sense[0] != 0x72 || sense[8] != 0x09 || sense[9] != 0x0c
sense_invalid(sense) == sense[0] # 114 \/ sense[8] # 9 \/ sense[9] # 12

\* desc = &sense[8..]; the register extraction shared by both pass-throughs
extract_registers(registers, sense) ==
    [registers EXCEPT ![0] = 0,
                      ![1] = sense[8 + 3],
                      ![2] = sense[8 + 4],
                      ![3] = sense[8 + 5],
                      ![7] = sense[8 + 11],
                      ![8] = sense[8 + 9],
                      ![9] = sense[8 + 7],
                      ![10] = sense[8 + 12],
                      ![11] = sense[8 + 13]]

protocol_byte(direction) ==
    CASE direction = DirNone -> 3 * 2
      [] direction = DirIn -> 4 * 2
      [] direction = DirOut -> 5 * 2

flags_byte(direction) ==
    CASE direction = DirNone -> 32   \* 0x20
      [] direction = DirIn -> 46     \* 0x2e
      [] direction = DirOut -> 38    \* 0x26

cdb16(command, direction, registers) ==
    [Zeros(16) EXCEPT ![0] = 133,    \* 0x85
                      ![1] = protocol_byte(direction),
                      ![2] = flags_byte(direction),
                      ![3] = registers[0],
                      ![4] = registers[1],
                      ![5] = registers[2],
                      ![6] = registers[3],
                      ![8] = registers[9],
                      ![10] = registers[8],
                      ![12] = registers[7],
                      ![13] = BitAnd(registers[10], 79),   \* & 0x4F
                      ![14] = command]

cdb12(command, direction, registers) ==
    [Zeros(12) EXCEPT ![0] = 161,    \* 0xa1
                      ![1] = protocol_byte(direction),
                      ![2] = flags_byte(direction),
                      ![3] = registers[1],
                      ![4] = registers[3],
                      ![5] = registers[9],
                      ![6] = registers[8],
                      ![7] = registers[7],
                      ![8] = BitAnd(registers[10], 79),
                      ![9] = command]

\* The tail of passthrough_16 and passthrough_12: submit, check the sense
\* buffer, extract the registers.  replies[1] is the kernel's reply.
passthrough(cdb, direction, registers, data, replies) ==
    LET sub == Submission(cdb, sg_direction(direction), data_len(data))
        k == replies[1]
    IN  IF ~k.ok
        THEN Outcome(Err(ErrIoOs), registers, data, <<sub>>)
        ELSE IF sense_invalid(k.sense)
        THEN Outcome(Err(ErrIoInvalidData), registers,
                     Transferred(direction, data, k), <<sub>>)
        ELSE Outcome(Ok(Unit), extract_registers(registers, k.sense),
                     Transferred(direction, data, k), <<sub>>)

passthrough_16(command, direction, registers, data, replies) ==
    passthrough(cdb16(command, direction, registers), direction, registers, data, replies)

passthrough_12(command, direction, registers, data, replies) ==
    passthrough(cdb12(command, direction, registers), direction, registers, data, replies)

\* Sunplus: a command submission, then a second submission that reads the
\* 8-byte register response.  replies[1], replies[2] are the kernel's replies.
sunplus_cdb(command, direction, registers) ==
    [Zeros(12) EXCEPT ![0] = 248,    \* 0xF8
                      ![1] = 0,
                      ![2] = 34,     \* 0x22
                      ![3] = (CASE direction = DirNone -> 0
                                [] direction = DirIn -> 16     \* 0x10
                                [] direction = DirOut -> 17),  \* 0x11
                      ![4] = registers[3],
                      ![5] = registers[1],
                      ![6] = registers[3],
                      ![7] = registers[9],
                      ![8] = registers[8],
                      ![9] = registers[7],
                      ![10] = BitOr(registers[10], 160),   \* | 0xA0
                      ![11] = command]

sunplus_response_cdb == [Zeros(12) EXCEPT ![0] = 248, ![1] = 0, ![2] = 33]  \* 0x21

sunplus_command(command, direction, registers, data, replies) ==
    LET sub1 == Submission(sunplus_cdb(command, direction, registers),
                           sg_direction(direction), data_len(data))
        sub2 == Submission(sunplus_response_cdb, SG_DXFER_FROM_DEV, 8)
        buf == replies[2].data
    IN  IF ~replies[1].ok
        THEN Outcome(Err(ErrIoOs), registers, data, <<sub1>>)
        ELSE IF ~replies[2].ok
        THEN Outcome(Err(ErrIoOs), registers,
                     Transferred(direction, data, replies[1]), <<sub1, sub2>>)
        ELSE Outcome(Ok(Unit),
                     [registers EXCEPT ![0] = 0,
                                       ![2] = buf[1],
                                       ![3] = buf[2],
                                       ![7] = buf[5],
                                       ![8] = buf[4],
                                       ![9] = buf[3],
                                       ![10] = buf[6],
                                       ![11] = buf[7]],
                     Transferred(direction, data, replies[1]), <<sub1, sub2>>)

\* JMicron: read the port register, submit the command, read the 16-byte
\* register snapshot.  replies[1..3] are the kernel's replies.
jmicron_port_cdb ==
    [Zeros(12) EXCEPT ![0] = 223,    \* 0xdf
                      ![1] = 16,     \* 0x10
                      ![4] = 1,
                      ![6] = 114,    \* 0x72
                      ![7] = 15,     \* 0x0f
                      ![11] = 253]   \* 0xfd

jmicron_cdb(command, registers, data, port) ==
    [jmicron_port_cdb EXCEPT ![0] = 223,
                             ![1] = 16,
                             ![2] = 0,
                             ![3] = (data_len(data) \div 256) % 256,
                             ![4] = data_len(data) % 256,
                             ![5] = registers[1],
                             ![6] = registers[3],
                             ![7] = registers[9],
                             ![8] = registers[8],
                             ![9] = registers[7],
                             ![10] = BitOr(registers[10],
                                           IF BitAnd(port, 4) # 0 THEN 160 ELSE 176),
                             ![11] = command]

jmicron_regs_cdb(port) ==
    [Zeros(12) EXCEPT ![0] = 223,
                      ![1] = 16,
                      ![4] = 16,
                      ![6] = (IF BitAnd(port, 4) # 0 THEN 128 ELSE 144),  \* 0x80 / 0x90
                      ![11] = 253]

jmicron_command(command, direction, registers, data, replies) ==
    LET sub1 == Submission(jmicron_port_cdb, SG_DXFER_FROM_DEV, 1)
        port == replies[1].data[0]
        sub2 == Submission(jmicron_cdb(command, registers, data, port),
                           sg_direction(direction), data_len(data))
        sub3 == Submission(jmicron_regs_cdb(port), SG_DXFER_FROM_DEV, 16)
        regbuf == replies[3].data
    IN  IF ~replies[1].ok
        THEN Outcome(Err(ErrIoOs), registers, data, <<sub1>>)
        ELSE IF BitAnd(port, 68) = 0     \* (port & 0x44) == 0
        THEN Outcome(Err(ErrIoNotFound), registers, data, <<sub1>>)
        ELSE IF ~replies[2].ok
        THEN Outcome(Err(ErrIoOs), registers, data, <<sub1, sub2>>)
        ELSE IF ~replies[3].ok
        THEN Outcome(Err(ErrIoOs), registers,
                     Transferred(direction, data, replies[2]), <<sub1, sub2, sub3>>)
        ELSE Outcome(Ok(Unit),
                     [registers EXCEPT ![0] = 0,
                                       ![2] = regbuf[14],
                                       ![3] = regbuf[0],
                                       ![7] = regbuf[10],
                                       ![8] = regbuf[4],
                                       ![9] = regbuf[6],
                                       ![10] = regbuf[9],
                                       ![11] = regbuf[13]],
                     Transferred(direction, data, replies[2]), <<sub1, sub2, sub3>>)

\* send_ata_command: the dispatcher's submit
send_ata_command(disk_type, command, direction, registers, data, replies) ==
    CASE disk_type = AtaPassthrough16 ->
             passthrough_16(command, direction, registers, data, replies)
      [] disk_type = AtaPassthrough12 ->
             passthrough_12(command, direction, registers, data, replies)
      [] disk_type = Sunplus ->
             sunplus_command(command, direction, registers, data, replies)
      [] disk_type = Jmicron ->
             jmicron_command(command, direction, registers, data, replies)
      [] disk_type = Blob ->
             Outcome(Err(ErrIoUnsupported), registers, data, <<>>)
      [] disk_type \in {Auto, DiskTypeNone, LinuxIde} ->
             Outcome(Err(ErrIoUnsupported), registers, data, <<>>)

(***************************************************************************)
(* disk/detect.rs: the disk type probe.  attempts[i] is the kernel's       *)
(* replies to the i-th dialect tried.                                      *)
(***************************************************************************)
try_identify_device(disk_type, replies) ==
    LET registers == set_sector_count(AtaRegisters_new, 1)
        o == send_ata_command(disk_type, IdentifyDevice, DirIn, registers,
                              Some(Zeros(512)), replies)
    IN  IF ~o.res.ok THEN [res |-> o.res, subs |-> o.subs]
        ELSE IF AllZero(o.data[1]) THEN [res |-> Err(ErrIoInvalidData), subs |-> o.subs]
        ELSE [res |-> Ok(o.data[1]), subs |-> o.subs]

\* the probe order the other way round
types_to_test_reversed == << AtaPassthrough12, AtaPassthrough16 >>

types_to_test == << AtaPassthrough16, AtaPassthrough12 >>

\* the for loop of detect_disk_type, from the i-th entry of types_to_test on
RECURSIVE detect_from(_, _)
detect_from(i, attempts) ==
    IF i > Len(types_to_test) THEN [res |-> Ok(DiskTypeNone), subs |-> << >>]
    ELSE LET t == try_identify_device(types_to_test[i], attempts[i])
         IN  IF t.res.ok THEN [res |-> Ok(types_to_test[i]), subs |-> t.subs]
             ELSE LET rest == detect_from(i + 1, attempts)
                  IN  [res |-> rest.res, subs |-> t.subs \o rest.subs]

detect_disk_type(attempts) == detect_from(1, attempts)

(***************************************************************************)
(* disk/device.rs: the Disk handle.  Every operation is an operator from   *)
(* the handle and the kernel's replies to the Result, the handle           *)
(* afterwards, the local register file at exit (None when the function     *)
(* returned before creating it) and the kernel submissions made.           *)
(***************************************************************************)
Disk(file, disk_type, size, identify_data, smart_data, smart_thresholds, smart_status) ==
    [file |-> file, disk_type |-> disk_type, size |-> size,
     identify_data |-> identify_data, smart_data |-> smart_data,
     smart_thresholds |-> smart_thresholds, smart_status |-> smart_status]

Ret(res, self, registers, subs) ==
    [res |-> res, self |-> self, registers |-> registers, subs |-> subs]

\* a handle that is built without the File it opened
open_without_file(size_reply, attempts) ==
    IF ~size_reply.ok THEN Ret(Err(ErrIoOs), None, None, << >>)
    ELSE LET d == detect_disk_type(attempts)
         IN  Ret(Ok(Unit),
                 Some(Disk(None, d.res.val, size_reply.size, None, None, None, None)),
                 None, d.subs)

\* Disk::open after the file has been opened: the capacity query, then the probe
open(size_reply, attempts) ==
    IF ~size_reply.ok THEN Ret(Err(ErrIoOs), None, None, << >>)
    ELSE LET d == detect_disk_type(attempts)
         IN  Ret(Ok(Unit),
                 Some(Disk(Some("fd"), d.res.val, size_reply.size, None, None, None, None)),
                 None, d.subs)

\* Disk::fd: the descriptor of the handle's File, a panic when there is none
fd(self) == IF self.file = None THEN Err(ErrPanic) ELSE Ok(self.file[1])

from_blob == Disk(None, Blob, 0, None, None, None, None)

\* a SMART check that takes a missing IDENTIFY cache for a device with SMART
is_smart_available_unchecked(self) ==
    IF self.identify_data = None THEN Ok(TRUE)
    ELSE Ok(BitAnd(self.identify_data[1][164], 1) # 0)

is_smart_available(self) ==
    IF self.identify_data = None THEN Err(ErrNoData)
    ELSE Ok(BitAnd(self.identify_data[1][164], 1) # 0)

check_sleep_mode(self, replies) ==
    IF self.disk_type = Blob THEN Ret(Err(ErrNotSupported), self, None, << >>)
    ELSE IF self.identify_data = None THEN Ret(Err(ErrNotSupported), self, None, << >>)
    ELSE IF ~fd(self).ok THEN Ret(fd(self), self, None, << >>)
    ELSE LET o == send_ata_command(self.disk_type, CheckPowerMode, DirNone,
                                   AtaRegisters_new, None, replies)
             registers == o.registers
         IN  IF ~o.res.ok THEN Ret(o.res, self, Some(registers), o.subs)
             ELSE IF registers[0] # 0 \/ BitAnd(registers[5], 1) # 0
             THEN Ret(Err(ErrIoInvalidData), self, Some(registers), o.subs)
             ELSE Ret(Ok(Bool(registers[3] = 255 \/ registers[3] = 128)),
                      self, Some(registers), o.subs)

\* a read_identify that sends the command a second time when it failed
read_identify_retrying(self, replies) ==
    IF self.disk_type = Blob THEN Ret(Ok(Unit), self, None, << >>)
    ELSE IF ~fd(self).ok THEN Ret(fd(self), self, None, << >>)
    ELSE LET first == send_ata_command(self.disk_type, IdentifyDevice, DirIn,
                                       set_sector_count(AtaRegisters_new, 1),
                                       Some(Zeros(512)), replies)
             again == send_ata_command(self.disk_type, IdentifyDevice, DirIn,
                                       set_sector_count(AtaRegisters_new, 1),
                                       Some(Zeros(512)), replies)
             o == IF first.res.ok THEN first
                  ELSE [again EXCEPT !.subs = first.subs \o again.subs]
         IN  IF ~o.res.ok THEN Ret(o.res, self, Some(o.registers), o.subs)
             ELSE IF AllZero(o.data[1])
             THEN Ret(Err(ErrIoInvalidData), self, Some(o.registers), o.subs)
             ELSE Ret(Ok(Unit), [self EXCEPT !.identify_data = o.data],
                      Some(o.registers), o.subs)

read_identify(self, replies) ==
    IF self.disk_type = Blob THEN Ret(Ok(Unit), self, None, << >>)
    ELSE IF ~fd(self).ok THEN Ret(fd(self), self, None, << >>)
    ELSE LET o == send_ata_command(self.disk_type, IdentifyDevice, DirIn,
                                   set_sector_count(AtaRegisters_new, 1),
                                   Some(Zeros(512)), replies)
         IN  IF ~o.res.ok THEN Ret(o.res, self, Some(o.registers), o.subs)
             ELSE IF AllZero(o.data[1])
             THEN Ret(Err(ErrIoInvalidData), self, Some(o.registers), o.subs)
             ELSE Ret(Ok(Unit), [self EXCEPT !.identify_data = o.data],
                      Some(o.registers), o.subs)

\* the register file of the three SMART subcommands
smart_registers(feature) ==
    set_lba_high(set_lba_mid(set_lba_low(set_features(AtaRegisters_new, feature), 0), 79), 194)

\* a read_smart_data that gives the dialect up when its command failed
read_smart_data_reprobing(self, replies) ==
    LET avail == is_smart_available(self)
    IN  IF ~avail.ok THEN Ret(avail, self, None, << >>)
        ELSE IF avail.val = FALSE THEN Ret(Err(ErrNotSupported), self, None, << >>)
        ELSE IF self.disk_type = Blob THEN Ret(Ok(Unit), self, None, << >>)
        ELSE IF ~fd(self).ok THEN Ret(fd(self), self, None, << >>)
        ELSE LET o == send_ata_command(self.disk_type, Smart, DirIn,
                                       set_sector_count(smart_registers(ReadData), 1),
                                       Some(Zeros(512)), replies)
             IN  IF ~o.res.ok
                 THEN Ret(o.res, [self EXCEPT !.disk_type = DiskTypeNone],
                          Some(o.registers), o.subs)
                 ELSE Ret(Ok(Unit), [self EXCEPT !.smart_data = o.data],
                          Some(o.registers), o.subs)

read_smart_data(self, replies) ==
    LET avail == is_smart_available(self)
    IN  IF ~avail.ok THEN Ret(avail, self, None, << >>)
        ELSE IF avail.val = FALSE THEN Ret(Err(ErrNotSupported), self, None, << >>)
        ELSE IF self.disk_type = Blob THEN Ret(Ok(Unit), self, None, << >>)
        ELSE IF ~fd(self).ok THEN Ret(fd(self), self, None, << >>)
        ELSE LET o == send_ata_command(self.disk_type, Smart, DirIn,
                                       set_sector_count(smart_registers(ReadData), 1),
                                       Some(Zeros(512)), replies)
             IN  IF ~o.res.ok THEN Ret(o.res, self, Some(o.registers), o.subs)
                 ELSE Ret(Ok(Unit), [self EXCEPT !.smart_data = o.data],
                          Some(o.registers), o.subs)

read_smart_thresholds(self, replies) ==
    LET avail == is_smart_available(self)
    IN  IF ~avail.ok THEN Ret(avail, self, None, << >>)
        ELSE IF avail.val = FALSE THEN Ret(Err(ErrNotSupported), self, None, << >>)
        ELSE IF self.disk_type = Blob THEN Ret(Ok(Unit), self, None, << >>)
        ELSE IF ~fd(self).ok THEN Ret(fd(self), self, None, << >>)
        ELSE LET o == send_ata_command(self.disk_type, Smart, DirIn,
                                       set_sector_count(smart_registers(ReadThresholds), 1),
                                       Some(Zeros(512)), replies)
             IN  IF ~o.res.ok THEN Ret(o.res, self, Some(o.registers), o.subs)
                 ELSE Ret(Ok(Unit), [self EXCEPT !.smart_thresholds = o.data],
                          Some(o.registers), o.subs)

\* a status read that caches "failing" when the status bytes are not recognised
smart_status_caching_failure(self, replies) ==
    LET avail == is_smart_available(self)
    IN  IF ~avail.ok THEN Ret(avail, self, None, << >>)
        ELSE IF avail.val = FALSE THEN Ret(Err(ErrNotSupported), self, None, << >>)
        ELSE IF self.disk_type = Blob
        THEN Ret(IF self.smart_status = None THEN Err(ErrNoData)
                 ELSE Ok(Bool(self.smart_status[1])), self, None, << >>)
        ELSE IF ~fd(self).ok THEN Ret(fd(self), self, None, << >>)
        ELSE LET o == send_ata_command(self.disk_type, Smart, DirNone,
                                       smart_registers(ReturnStatus), None, replies)
                 lba_mid == o.registers[8]
                 lba_high == o.registers[7]
             IN  IF ~o.res.ok THEN Ret(o.res, self, Some(o.registers), o.subs)
                 ELSE IF (self.disk_type = AtaPassthrough12 \/ lba_high = 194)
                         /\ lba_mid = 79
                 THEN Ret(Ok(Bool(TRUE)), [self EXCEPT !.smart_status = Some(TRUE)],
                          Some(o.registers), o.subs)
                 ELSE IF (self.disk_type = AtaPassthrough12 \/ lba_high = 44)
                         /\ lba_mid = 244
                 THEN Ret(Ok(Bool(FALSE)), [self EXCEPT !.smart_status = Some(FALSE)],
                          Some(o.registers), o.subs)
                 ELSE Ret(Err(ErrIoInvalidData), [self EXCEPT !.smart_status = Some(FALSE)],
                          Some(o.registers), o.subs)

smart_status(self, replies) ==
    LET avail == is_smart_available(self)
    IN  IF ~avail.ok THEN Ret(avail, self, None, << >>)
        ELSE IF avail.val = FALSE THEN Ret(Err(ErrNotSupported), self, None, << >>)
        ELSE IF self.disk_type = Blob
        THEN Ret(IF self.smart_status = None THEN Err(ErrNoData)
                 ELSE Ok(Bool(self.smart_status[1])), self, None, << >>)
        ELSE IF ~fd(self).ok THEN Ret(fd(self), self, None, << >>)
        ELSE LET o == send_ata_command(self.disk_type, Smart, DirNone,
                                       smart_registers(ReturnStatus), None, replies)
                 lba_mid == o.registers[8]
                 lba_high == o.registers[7]
             IN  IF ~o.res.ok THEN Ret(o.res, self, Some(o.registers), o.subs)
                 ELSE IF (self.disk_type = AtaPassthrough12 \/ lba_high = 194)
                         /\ lba_mid = 79
                 THEN Ret(Ok(Bool(TRUE)), [self EXCEPT !.smart_status = Some(TRUE)],
                          Some(o.registers), o.subs)
                 ELSE IF (self.disk_type = AtaPassthrough12 \/ lba_high = 44)
                         /\ lba_mid = 244
                 THEN Ret(Ok(Bool(FALSE)), [self EXCEPT !.smart_status = Some(FALSE)],
                          Some(o.registers), o.subs)
                 ELSE Ret(Err(ErrIoInvalidData), self, Some(o.registers), o.subs)

(***************************************************************************)
(* smart/blob.rs: BlobData and parse_blob.  The input is a byte array      *)
(* indexed from 0.  A slice or index past the end of the input is a Rust   *)
(* panic, kept as the outcome Panic so that it is never silently an Ok.    *)
(***************************************************************************)
TagIdentify == 1229211225         \* 0x49444659 'IDFY'
TagSmartStatus == 1397576532      \* 0x534D5354 'SMST'
TagSmartData == 1397572692        \* 0x534D4454 'SMDT'
TagSmartThresholds == 1397576776  \* 0x534D5448 'SMTH'

BlobTag_from_u32(value) ==
    IF value \in {TagIdentify, TagSmartStatus, TagSmartData, TagSmartThresholds}
    THEN Some(value) ELSE None

BlobData(identify, bsmart_status, bsmart_data, bsmart_thresholds) ==
    [identify |-> identify, smart_status |-> bsmart_status,
     smart_data |-> bsmart_data, smart_thresholds |-> bsmart_thresholds]

BlobData_new == BlobData(None, None, None, None)

len(data) == Cardinality(DOMAIN data)

\* the four bytes read least significant byte first
u32_from_le_bytes(data, p) ==
    ((data[p + 3] * 256 + data[p + 2]) * 256 + data[p + 1]) * 256 + data[p]

\* u32::from_be_bytes([data[p], data[p+1], data[p+2], data[p+3]])
u32_from_be_bytes(data, p) ==
    ((data[p] * 256 + data[p + 1]) * 256 + data[p + 2]) * 256 + data[p + 3]

\* &data[pos..pos + n] copied into a fresh array
slice(data, pos, n) == [i \in 0..(n - 1) |-> data[pos + i]]


\* first pass: the validation loop, from temp_pos on; has = the four has_* flags
RECURSIVE blob_validate(_, _, _)
blob_validate(data, temp_pos, has) ==
    IF temp_pos + 8 <= len(data)
    THEN LET tag_value == u32_from_be_bytes(data, temp_pos)
             size == u32_from_be_bytes(data, temp_pos + 4)
             p == temp_pos + 8
             tag == BlobTag_from_u32(tag_value)
             want == IF tag_value = TagSmartStatus THEN 4 ELSE 512
         IN  IF p + size > len(data) THEN Err(ErrInvalidData)
             ELSE IF tag = None THEN Err(ErrInvalidData)
             ELSE IF size # want \/ tag_value \in has THEN Err(ErrInvalidData)
             ELSE blob_validate(data, p + size, has \cup {tag_value})
    ELSE IF TagIdentify \notin has THEN Err(ErrInvalidData)
    ELSE Ok(Unit)

\* the blocks the first pass visits, from temp_pos on: tag, size and the
\* offset of the payload, up to the block it returns at
RECURSIVE validate_visits(_, _, _)
validate_visits(data, temp_pos, has) ==
    IF temp_pos + 8 <= len(data)
    THEN LET tag_value == u32_from_be_bytes(data, temp_pos)
             size == u32_from_be_bytes(data, temp_pos + 4)
             p == temp_pos + 8
             want == IF tag_value = TagSmartStatus THEN 4 ELSE 512
             here == [tag |-> tag_value, size |-> size, at |-> p]
         IN  IF p + size > len(data) \/ BlobTag_from_u32(tag_value) = None
                \/ size # want \/ tag_value \in has
             THEN << here >>
             ELSE << here >> \o validate_visits(data, p + size, has \cup {tag_value})
    ELSE << >>

\* the blocks the second pass visits, from pos on
RECURSIVE copy_visits(_, _)
copy_visits(data, pos) ==
    IF pos + 8 <= len(data)
    THEN LET tag_value == u32_from_be_bytes(data, pos)
             size == u32_from_be_bytes(data, pos + 4)
             p == pos + 8
             need == IF tag_value = TagSmartStatus THEN 4 ELSE 512
             here == [tag |-> tag_value, size |-> size, at |-> p]
         IN  IF BlobTag_from_u32(tag_value) # None /\ p + need > len(data)
             THEN << here >>
             ELSE << here >> \o copy_visits(data, p + size)
    ELSE << >>

\* a copy loop that runs while any byte is left
RECURSIVE blob_copy_while_bytes_left(_, _, _)
blob_copy_while_bytes_left(data, pos, blob_data) ==
    IF pos < len(data)
    THEN IF pos + 8 > len(data) THEN Err(ErrPanic)
         ELSE LET tag_value == u32_from_be_bytes(data, pos)
                  size == u32_from_be_bytes(data, pos + 4)
                  p == pos + 8
                  need == IF tag_value = TagSmartStatus THEN 4 ELSE 512
              IN  IF BlobTag_from_u32(tag_value) = None
                  THEN blob_copy_while_bytes_left(data, p + size, blob_data)
                  ELSE IF p + need > len(data) THEN Err(ErrPanic)
                  ELSE blob_copy_while_bytes_left(data, p + size,
                         CASE tag_value = TagIdentify ->
                                [blob_data EXCEPT !.identify = Some(slice(data, p, 512))]
                           [] tag_value = TagSmartStatus ->
                                [blob_data EXCEPT !.smart_status =
                                     Some(u32_from_be_bytes(data, p) # 0)]
                           [] tag_value = TagSmartData ->
                                [blob_data EXCEPT !.smart_data = Some(slice(data, p, 512))]
                           [] tag_value = TagSmartThresholds ->
                                [blob_data EXCEPT !.smart_thresholds =
                                     Some(slice(data, p, 512))])
    ELSE Ok(blob_data)

\* second pass: the copy loop, from pos on
RECURSIVE blob_copy(_, _, _)
blob_copy(data, pos, blob_data) ==
    IF pos + 8 <= len(data)
    THEN LET tag_value == u32_from_be_bytes(data, pos)
             size == u32_from_be_bytes(data, pos + 4)
             p == pos + 8
             need == IF tag_value = TagSmartStatus THEN 4 ELSE 512
         IN  IF BlobTag_from_u32(tag_value) = None
             THEN blob_copy(data, p + size, blob_data)
             ELSE IF p + need > len(data) THEN Err(ErrPanic)
             ELSE blob_copy(data, p + size,
                    CASE tag_value = TagIdentify ->
                           [blob_data EXCEPT !.identify = Some(slice(data, p, 512))]
                      [] tag_value = TagSmartStatus ->
                           [blob_data EXCEPT !.smart_status =
                                Some(u32_from_be_bytes(data, p) # 0)]
                      [] tag_value = TagSmartData ->
                           [blob_data EXCEPT !.smart_data = Some(slice(data, p, 512))]
                      [] tag_value = TagSmartThresholds ->
                           [blob_data EXCEPT !.smart_thresholds = Some(slice(data, p, 512))])
    ELSE Ok(blob_data)

parse_blob(data) ==
    LET v == blob_validate(data, 0, {})
    IN  IF ~v.ok THEN v ELSE blob_copy(data, 0, BlobData_new)

\* disk_from_blob once the file has been read into `data`
\* a loader that leaves the stored SMART verdict out of the handle
disk_from_blob_no_status(data) ==
    LET b == parse_blob(data)
    IN  IF ~b.ok THEN Ret(b, None, None, << >>)
        ELSE Ret(Ok(Unit),
                 Some([from_blob EXCEPT
                         !.identify_data = b.val.identify,
                         !.smart_data = b.val.smart_data,
                         !.smart_thresholds = b.val.smart_thresholds]),
                 None, << >>)

disk_from_blob(data) ==
    LET b == parse_blob(data)
    IN  IF ~b.ok THEN Ret(b, None, None, << >>)
        ELSE Ret(Ok(Unit),
                 Some([from_blob EXCEPT
                         !.identify_data = b.val.identify,
                         !.smart_data = b.val.smart_data,
                         !.smart_thresholds = b.val.smart_thresholds,
                         !.smart_status = b.val.smart_status]),
                 None, << >>)

(***************************************************************************)
(* 64-bit unsigned arithmetic.  A number is its little-endian base-256     *)
(* digits without leading zero digits (<< >> is 0), so that the 48-bit raw *)
(* values and the u64 products of the attribute decoder are computed       *)
(* exactly.  A checked build panics on overflow, an unchecked build wraps. *)
(***************************************************************************)
RECURSIVE Norm(_)
Norm(d) == IF d # << >> /\ d[Len(d)] = 0 THEN Norm(SubSeq(d, 1, Len(d) - 1)) ELSE d

RECURSIVE Digits(_)
Digits(n) == IF n = 0 THEN << >> ELSE << n % 256 >> \o Digits(n \div 256)

\* d * c + carry, for a small c
RECURSIVE MulAdd(_, _, _)
MulAdd(d, c, carry) ==
    IF d = << >> THEN Digits(carry)
    ELSE LET t == d[1] * c + carry
         IN  << t % 256 >> \o MulAdd(Tail(d), c, t \div 256)

BigMul(d, c) == Norm(MulAdd(d, c, 0))
BigAdd(d, c) == Norm(MulAdd(d, 1, c))

\* the sum of two numbers, digit by digit
RECURSIVE AddDigits(_, _, _)
AddDigits(a, b, carry) ==
    IF a = << >> /\ b = << >> THEN (IF carry = 0 THEN << >> ELSE << carry >>)
    ELSE LET x == IF a = << >> THEN 0 ELSE a[1]
             y == IF b = << >> THEN 0 ELSE b[1]
             t == x + y + carry
         IN  << t % 256 >> \o AddDigits(IF a = << >> THEN a ELSE Tail(a),
                                        IF b = << >> THEN b ELSE Tail(b), t \div 256)

BigSum(a, b) == Norm(AddDigits(a, b, 0))

\* << quotient digits, remainder >> of d / c, for a small c
RECURSIVE DivRem(_, _)
DivRem(d, c) ==
    IF d = << >> THEN << << >>, 0 >>
    ELSE LET hi == DivRem(Tail(d), c)
             t == hi[2] * 256 + d[1]
         IN  << << t \div c >> \o hi[1], t % c >>

BigDiv(d, c) == Norm(DivRem(d, c)[1])

\* a < b
RECURSIVE BigLess(_, _)
BigLess(a, b) ==
    IF Len(a) # Len(b) THEN Len(a) < Len(b)
    ELSE IF a = << >> THEN FALSE
    ELSE IF a[Len(a)] # b[Len(b)] THEN a[Len(a)] < b[Len(b)]
    ELSE BigLess(Norm(SubSeq(a, 1, Len(a) - 1)), Norm(SubSeq(b, 1, Len(b) - 1)))

\* v & (2^(8n) - 1)
LowBytes(d, n) == Norm(SubSeq(d, 1, IF Len(d) < n THEN Len(d) ELSE n))

\* a u64 product: a panic in a build with overflow checks, wrapped otherwise
u64_mul(d, c, overflow_checks) ==
    LET p == BigMul(d, c)
    IN  IF Len(p) <= 8 THEN Ok(p)
        ELSE IF overflow_checks THEN Err(ErrPanic)
        ELSE Ok(LowBytes(p, 8))

\* a chain of u64 products, left to right
RECURSIVE u64_mul_chain(_, _, _)
u64_mul_chain(d, cs, overflow_checks) ==
    IF cs = << >> THEN Ok(d)
    ELSE LET p == u64_mul(d, Head(cs), overflow_checks)
         IN  IF ~p.ok THEN p ELSE u64_mul_chain(p.val, Tail(cs), overflow_checks)

(***************************************************************************)
(* smart/attributes.rs: the attribute table and the attribute decoder.     *)
(***************************************************************************)
Info(name, unit) == [name |-> name, unit |-> unit]

ATTRIBUTE_INFO(id) ==
    CASE id = 1 -> Some(Info("raw-read-error-rate", "None"))
      [] id = 2 -> Some(Info("throughput-performance", "Unknown"))
      [] id = 3 -> Some(Info("spin-up-time", "Milliseconds"))
      [] id = 4 -> Some(Info("start-stop-count", "None"))
      [] id = 5 -> Some(Info("reallocated-sector-count", "Sectors"))
      [] id = 6 -> Some(Info("read-channel-margin", "Unknown"))
      [] id = 7 -> Some(Info("seek-error-rate", "None"))
      [] id = 8 -> Some(Info("seek-time-performance", "Unknown"))
      [] id = 9 -> Some(Info("power-on-hours", "Milliseconds"))
      [] id = 10 -> Some(Info("spin-retry-count", "None"))
      [] id = 11 -> Some(Info("calibration-retry-count", "None"))
      [] id = 12 -> Some(Info("power-cycle-count", "None"))
      [] id = 13 -> Some(Info("read-soft-error-rate", "None"))
      [] id = 170 -> Some(Info("available-reserved-space", "Percent"))
      [] id = 171 -> Some(Info("program-fail-count", "None"))
      [] id = 172 -> Some(Info("erase-fail-count", "None"))
      [] id = 175 -> Some(Info("program-fail-count-chip", "None"))
      [] id = 176 -> Some(Info("erase-fail-count-chip", "None"))
      [] id = 177 -> Some(Info("wear-leveling-count", "None"))
      [] id = 178 -> Some(Info("used-reserved-blocks-chip", "None"))
      [] id = 179 -> Some(Info("used-reserved-blocks-total", "None"))
      [] id = 180 -> Some(Info("unused-reserved-blocks", "None"))
      [] id = 181 -> Some(Info("program-fail-count-total", "None"))
      [] id = 182 -> Some(Info("erase-fail-count-total", "None"))
      [] id = 183 -> Some(Info("runtime-bad-block-total", "None"))
      [] id = 184 -> Some(Info("end-to-end-error", "None"))
      [] id = 187 -> Some(Info("reported-uncorrect", "Sectors"))
      [] id = 188 -> Some(Info("command-timeout", "None"))
      [] id = 189 -> Some(Info("high-fly-writes", "None"))
      [] id = 190 -> Some(Info("airflow-temperature-celsius", "MilliKelvin"))
      [] id = 191 -> Some(Info("g-sense-error-rate", "None"))
      [] id = 192 -> Some(Info("power-off-retract-count", "None"))
      [] id = 193 -> Some(Info("load-cycle-count", "None"))
      [] id = 194 -> Some(Info("temperature-celsius-2", "MilliKelvin"))
      [] id = 195 -> Some(Info("hardware-ecc-recovered", "None"))
      [] id = 196 -> Some(Info("reallocated-event-count", "None"))
      [] id = 197 -> Some(Info("current-pending-sector", "Sectors"))
      [] id = 198 -> Some(Info("offline-uncorrectable", "Sectors"))
      [] id = 199 -> Some(Info("udma-crc-error-count", "None"))
      [] id = 200 -> Some(Info("multi-zone-error-rate", "None"))
      [] id = 201 -> Some(Info("soft-read-error-rate", "None"))
      [] id = 202 -> Some(Info("ta-increase-count", "None"))
      [] id = 203 -> Some(Info("run-out-cancel", "Unknown"))
      [] id = 204 -> Some(Info("shock-count-write-open", "None"))
      [] id = 205 -> Some(Info("shock-rate-write-open", "None"))
      [] id = 206 -> Some(Info("flying-height", "Unknown"))
      [] id = 207 -> Some(Info("spin-high-current", "Unknown"))
      [] id = 208 -> Some(Info("spin-buzz", "Unknown"))
      [] id = 209 -> Some(Info("offline-seek-performance", "Unknown"))
      [] id = 220 -> Some(Info("disk-shift", "Unknown"))
      [] id = 221 -> Some(Info("g-sense-error-rate-2", "None"))
      [] id = 222 -> Some(Info("loaded-hours", "Milliseconds"))
      [] id = 223 -> Some(Info("load-retry-count", "None"))
      [] id = 224 -> Some(Info("load-friction", "Unknown"))
      [] id = 225 -> Some(Info("load-cycle-count-2", "None"))
      [] id = 226 -> Some(Info("load-in-time", "Milliseconds"))
      [] id = 227 -> Some(Info("torq-amp-count", "None"))
      [] id = 228 -> Some(Info("power-off-retract-count-2", "None"))
      [] id = 230 -> Some(Info("head-amplitude", "Unknown"))
      [] id = 231 -> Some(Info("temperature-celsius", "MilliKelvin"))
      [] id = 232 -> Some(Info("endurance-remaining", "Percent"))
      [] id = 233 -> Some(Info("power-on-seconds-2", "Unknown"))
      [] id = 234 -> Some(Info("uncorrectable-ecc-count", "Sectors"))
      [] id = 235 -> Some(Info("good-block-rate", "Unknown"))
      [] id = 240 -> Some(Info("head-flying-hours", "Milliseconds"))
      [] id = 241 -> Some(Info("total-lbas-written", "Megabytes"))
      [] id = 242 -> Some(Info("total-lbas-read", "Megabytes"))
      [] id = 250 -> Some(Info("read-error-retry-rate", "None"))
      [] OTHER -> None

\* u64::from_le_bytes([raw[0], .., raw[5], 0, 0])
fourtyeight_of(raw) == Norm(<< raw[0], raw[1], raw[2], raw[3], raw[4], raw[5] >>)

\* make_pretty: Ok(the attribute with its pretty_value) or a panic
make_pretty(attr, overflow_checks) ==
    IF attr.pretty_unit = "Unknown" THEN Ok(attr)
    ELSE LET fourtyeight == fourtyeight_of(attr.raw)
             name == attr.name
             v == CASE name = "spin-up-time" -> Ok(LowBytes(fourtyeight, 2))
                    [] name \in {"airflow-temperature-celsius", "temperature-celsius",
                                 "temperature-celsius-2"} ->
                         Ok(BigAdd(BigMul(LowBytes(fourtyeight, 2), 1000), 273150))
                    [] name = "temperature-centi-celsius" ->
                         Ok(BigAdd(BigMul(LowBytes(fourtyeight, 2), 100), 273150))
                    [] name = "power-on-minutes" ->
                         u64_mul_chain(fourtyeight, << 60, 1000 >>, overflow_checks)
                    [] name \in {"power-on-seconds", "power-on-seconds-2"} ->
                         u64_mul_chain(fourtyeight, << 1000 >>, overflow_checks)
                    [] name = "power-on-half-minutes" ->
                         u64_mul_chain(fourtyeight, << 30, 1000 >>, overflow_checks)
                    [] name \in {"power-on-hours", "loaded-hours", "head-flying-hours"} ->
                         u64_mul_chain(LowBytes(fourtyeight, 4), << 60, 60, 1000 >>,
                                       overflow_checks)
                    [] name \in {"reallocated-sector-count", "current-pending-sector"} ->
                         Ok(LowBytes(fourtyeight, 4))
                    [] name \in {"endurance-remaining", "available-reserved-space"} ->
                         Ok(Digits(attr.current_value))
                    [] name \in {"total-lbas-written", "total-lbas-read"} ->
                         LET p == u64_mul_chain(fourtyeight, << 65536, 512 >>, overflow_checks)
                         IN  IF ~p.ok THEN p ELSE Ok(BigDiv(p.val, 1000000))
                    [] name \in {"timed-workload-media-wear", "timed-workload-host-reads"} ->
                         Ok(BigDiv(fourtyeight, 1024))
                    [] name = "workload-timer" ->
                         u64_mul_chain(fourtyeight, << 60, 1000 >>, overflow_checks)
                    [] OTHER -> Ok(fourtyeight)
         IN  IF ~v.ok THEN v ELSE Ok([attr EXCEPT !.pretty_value = v.val])

\* attr.name.contains("spin-up") || attr.name.contains("load-in"), over the
\* names of the table that have the unit Milliseconds
short_max_names == {"spin-up-time", "load-in-time"}

MKELVIN_MIN == 258150
MKELVIN_MAX == 373150
MSECOND_MIN == 1
SHORT_MAX == Digits(60 * 60 * 1000)
LONG_MAX == BigMul(Digits(30 * 365 * 24 * 60 * 60), 1000)

\* a plausibility check that lets every temperature through
verify_attribute_any_temperature(attr, disk_size) ==
    CASE attr.pretty_unit = "MilliKelvin" -> attr
      [] attr.pretty_unit = "Milliseconds" ->
           LET max == IF attr.name \in short_max_names THEN SHORT_MAX ELSE LONG_MAX
           IN  IF BigLess(attr.pretty_value, Digits(MSECOND_MIN))
                  \/ BigLess(max, attr.pretty_value)
               THEN [attr EXCEPT !.pretty_unit = "Unknown"] ELSE attr
      [] attr.pretty_unit = "Sectors" ->
           IF disk_size > 0
           THEN LET max_sectors == Digits(disk_size \div 512)
                IN  IF attr.pretty_value = << 255, 255, 255, 255 >>
                       \/ attr.pretty_value = << 255, 255, 255, 255, 255, 255 >>
                       \/ BigLess(max_sectors, attr.pretty_value)
                    THEN [attr EXCEPT !.pretty_unit = "Unknown"]
                    ELSE IF attr.name \in {"reallocated-sector-count",
                                            "current-pending-sector"}
                            /\ attr.pretty_value # << >>
                    THEN [attr EXCEPT !.warn = TRUE]
                    ELSE attr
           ELSE attr
      [] OTHER -> attr

verify_attribute(attr, disk_size) ==
    CASE attr.pretty_unit = "MilliKelvin" ->
           IF BigLess(attr.pretty_value, Digits(MKELVIN_MIN))
              \/ BigLess(Digits(MKELVIN_MAX), attr.pretty_value)
           THEN [attr EXCEPT !.pretty_unit = "Unknown"] ELSE attr
      [] attr.pretty_unit = "Milliseconds" ->
           LET max == IF attr.name \in short_max_names THEN SHORT_MAX ELSE LONG_MAX
           IN  IF BigLess(attr.pretty_value, Digits(MSECOND_MIN))
                  \/ BigLess(max, attr.pretty_value)
               THEN [attr EXCEPT !.pretty_unit = "Unknown"] ELSE attr
      [] attr.pretty_unit = "Sectors" ->
           IF disk_size > 0
           THEN LET max_sectors == Digits(disk_size \div 512)
                IN  IF attr.pretty_value = << 255, 255, 255, 255 >>
                       \/ attr.pretty_value = << 255, 255, 255, 255, 255, 255 >>
                       \/ BigLess(max_sectors, attr.pretty_value)
                    THEN [attr EXCEPT !.pretty_unit = "Unknown"]
                    ELSE IF attr.name \in {"reallocated-sector-count",
                                            "current-pending-sector"}
                            /\ attr.pretty_value # << >>
                    THEN [attr EXCEPT !.warn = TRUE]
                    ELSE attr
           ELSE attr
      [] OTHER -> attr

\* the threshold block of parse_attribute
apply_threshold(attr, threshold_data) ==
    IF threshold_data # None /\ threshold_data[1][0] = attr.id
    THEN LET threshold == threshold_data[1][1]
             in_range == threshold >= 1 /\ threshold <= 253
             past_valid == in_range /\ attr.worst_value_valid
             now_valid == in_range /\ attr.current_value_valid
             past == IF past_valid THEN attr.worst_value > threshold ELSE attr.good_in_the_past
             now == IF now_valid THEN attr.current_value > threshold ELSE attr.good_now
         IN  [attr EXCEPT !.threshold = threshold,
                          !.threshold_valid = (threshold # 254),
                          !.good_in_the_past = past,
                          !.good_in_the_past_valid = past_valid,
                          !.good_now = now,
                          !.good_now_valid = now_valid,
                          !.warn = (now_valid /\ ~now) \/ (past_valid /\ ~past)]
    ELSE attr

\* parse_attribute: Ok(None) for an empty slot, Ok(Some(record)), or a panic
parse_attribute(raw_data, threshold_data, disk_size, overflow_checks) ==
    LET id == raw_data[0]
        info == ATTRIBUTE_INFO(id)
        name == IF info # None THEN info[1].name ELSE "attribute-" \o ToString(id)
        unit == IF info # None THEN info[1].unit ELSE "Unknown"
        current_value == raw_data[3]
        worst_value == raw_data[4]
        attr == [id |-> id, name |-> name, pretty_unit |-> unit,
                 flags |-> raw_data[1] + 256 * raw_data[2],
                 threshold |-> 0, threshold_valid |-> FALSE,
                 online |-> BitAnd(raw_data[1], 2) # 0,
                 prefailure |-> BitAnd(raw_data[1], 1) # 0,
                 good_now |-> TRUE, good_now_valid |-> FALSE,
                 good_in_the_past |-> TRUE, good_in_the_past_valid |-> FALSE,
                 current_value_valid |-> (current_value >= 1 /\ current_value <= 253),
                 worst_value_valid |-> (worst_value >= 1 /\ worst_value <= 253),
                 warn |-> FALSE,
                 current_value |-> current_value, worst_value |-> worst_value,
                 pretty_value |-> << >>,
                 raw |-> slice(raw_data, 5, 6)]
        pretty == make_pretty(attr, overflow_checks)
    IN  IF len(raw_data) < 12 THEN Ok(None)
        ELSE IF id = 0 THEN Ok(None)
        ELSE IF ~pretty.ok THEN pretty
        ELSE Ok(Some(verify_attribute(apply_threshold(pretty.val, threshold_data),
                                      disk_size)))

\* the closure of parse_smart_attributes that looks the threshold slot up,
\* from slot j on
RECURSIVE find_threshold(_, _, _)
find_threshold(t, id, j) ==
    IF j >= 30 THEN None
    ELSE IF t[2 + j * 12] = id /\ id # 0 THEN Some(slice(t, 2 + j * 12, 12))
    ELSE find_threshold(t, id, j + 1)

\* the slot loop of parse_smart_attributes, from slot i on
RECURSIVE parse_slots(_, _, _, _, _, _)
parse_slots(smart_data, thresholds, size, i, attributes, overflow_checks) ==
    IF i >= 30 THEN Ok(attributes)
    ELSE LET attr_data == slice(smart_data, 2 + i * 12, 12)
             threshold_data == IF thresholds = None THEN None
                               ELSE find_threshold(thresholds[1], attr_data[0], 0)
             a == parse_attribute(attr_data, threshold_data, size, overflow_checks)
         IN  IF ~a.ok THEN a
             ELSE parse_slots(smart_data, thresholds, size, i + 1,
                              IF a.val = None THEN attributes
                              ELSE Append(attributes, a.val[1]),
                              overflow_checks)

parse_smart_attributes(self, overflow_checks) ==
    IF self.smart_data = None THEN Err(ErrNoData)
    ELSE parse_slots(self.smart_data[1], self.smart_thresholds, self.size, 0, << >>,
                     overflow_checks)

(***************************************************************************)
(* disk/smart_data.rs, types/units.rs and smart/statistics.rs.             *)
(***************************************************************************)
SmartData_new(raw, disk_size) == [raw |-> raw, disk_size |-> disk_size]
SmartThresholds_new(raw) == [raw |-> raw]
SmartInfo_new(data, thresholds) == [data |-> data, thresholds |-> thresholds]

\* SmartData::parse_attributes: the same slot loop as the handle's
SmartData_parse_attributes(self, thresholds, overflow_checks) ==
    parse_slots(self.raw,
                IF thresholds = None THEN None ELSE Some(thresholds[1].raw),
                self.disk_size, 0, << >>, overflow_checks)

SmartInfo_parse_attributes(self, overflow_checks) ==
    SmartData_parse_attributes(self.data, self.thresholds, overflow_checks)

RECURSIVE BigToInt(_)
BigToInt(d) == IF d = << >> THEN 0 ELSE d[1] + 256 * BigToInt(Tail(d))

\* the f64 of Temperature, in thousandths of a degree
Temperature_from_millikelvin(mk) == [celsius_thousandths |-> BigToInt(mk) - 273150]
Duration_from_millis(ms) == [milliseconds |-> ms]

\* the last attribute of the list with this id: what the loop of bad_sectors
\* leaves in reallocated and in pending
last_pretty(attributes, id) ==
    LET at == {i \in 1..Len(attributes) : attributes[i].id = id}
    IN  IF at = {} THEN None
        ELSE Some(attributes[CHOOSE i \in at : \A j \in at : j <= i].pretty_value)

\* the first attribute of the list the loop returns from
first_of(attributes, at) ==
    IF at = {} THEN None ELSE Some(attributes[CHOOSE i \in at : \A j \in at : i <= j])

\* the value of a one-element set: binds a value that is computed once
the(S) == CHOOSE x \in S : TRUE

\* In the four functions below, a is the result of self.parse_attributes(),
\* which each of them calls first on the same sectors: Ok(the list) or a panic.

\* a bad-sector count that forgets the pending sectors when both are there
bad_sectors_reallocated_only(a) ==
    IF ~a.ok THEN a
    ELSE the({ Ok(IF m[1] # None THEN m[1] ELSE m[2])
               : m \in {<< last_pretty(a.val, 5), last_pretty(a.val, 197) >>} })

\* m = (reallocated, pending) after the loop
bad_sectors(a) ==
    IF ~a.ok THEN a
    ELSE the({ Ok(CASE m[1] # None /\ m[2] # None -> Some(BigSum(m[1][1], m[2][1]))
                    [] m[1] # None /\ m[2] = None -> m[1]
                    [] m[1] = None /\ m[2] # None -> m[2]
                    [] OTHER -> None)
               : m \in {<< last_pretty(a.val, 5), last_pretty(a.val, 197) >>} })

power_on_duration(a) ==
    IF ~a.ok THEN a
    ELSE the({ Ok(IF hit = None THEN None
                  ELSE Some(Duration_from_millis(hit[1].pretty_value)))
               : hit \in {first_of(a.val, {i \in 1..Len(a.val) :
                             a.val[i].id = 9 /\ a.val[i].name = "power-on-hours"})} })

power_cycle_count(a) ==
    IF ~a.ok THEN a
    ELSE the({ Ok(IF hit = None THEN None ELSE Some(hit[1].pretty_value))
               : hit \in {first_of(a.val, {i \in 1..Len(a.val) :
                             a.val[i].id = 12 /\ a.val[i].name = "power-cycle-count"})} })

\* attr.name.contains("temperature"), over the names of the table
temperature_names == {"airflow-temperature-celsius", "temperature-celsius-2",
                      "temperature-celsius", "temperature-centi-celsius"}

temperature(a) ==
    IF ~a.ok THEN a
    ELSE the({ Ok(IF hit = None THEN None
                  ELSE Some(Temperature_from_millikelvin(hit[1].pretty_value)))
               : hit \in {first_of(a.val, {i \in 1..Len(a.val) :
                             a.val[i].id \in {194, 190, 231}
                             /\ a.val[i].name \in temperature_names})} })

statistics(self, overflow_checks) ==
    the({ IF ~a.ok THEN a
          ELSE Ok([bad_sectors |-> bad_sectors(a).val,
                   power_on_duration |-> power_on_duration(a).val,
                   power_cycle_count |-> power_cycle_count(a).val,
                   temperature |-> temperature(a).val])
          : a \in {SmartInfo_parse_attributes(self, overflow_checks)} })

(***************************************************************************)
(* utils.rs and identify/parse.rs.  A string is its sequence of bytes.     *)
(***************************************************************************)
swap_string_bytes(s) ==
    [i \in 1..Len(s) |-> IF i % 2 = 1 THEN s[i + 1] ELSE s[i - 1]]

clean_string(s) ==
    [i \in 1..Len(s) |-> IF s[i] < 32 \/ s[i] >= 127 THEN 32 ELSE s[i]]

\* s.split_whitespace().collect().join(" "), on the cleaned bytes, where the
\* only whitespace left is the space
RECURSIVE trim_spaces(_)
trim_spaces(s) ==
    IF s = << >> THEN << >>
    ELSE IF Head(s) = 32 THEN trim_spaces(Tail(s))
    ELSE LET rest == trim_spaces(Tail(s))
         IN  IF Len(s) > 1 /\ s[2] = 32 /\ rest # << >>
             THEN << Head(s), 32 >> \o rest
             ELSE << Head(s) >> \o rest

read_ata_string(raw) == trim_spaces(clean_string(swap_string_bytes(Seq1(raw))))

parse_identify_data(raw) ==
    Ok([serial |-> read_ata_string(slice(raw, 20, 20)),
        firmware |-> read_ata_string(slice(raw, 46, 8)),
        model |-> read_ata_string(slice(raw, 54, 40))])

(***************************************************************************)
(* smart/parse.rs                                                          *)
(***************************************************************************)
offline_data_collection_status(b) ==
    CASE b \in {0, 128} -> "Never"
      [] b \in {2, 130} -> "Success"
      [] b = 3 -> "InProgress"
      [] b \in {4, 132} -> "Suspended"
      [] b \in {5, 133} -> "Aborted"
      [] b \in {6, 134} -> "Fatal"
      [] OTHER -> "Unknown"

self_test_execution_status(n) ==
    CASE n = 0 -> "SuccessOrNever"
      [] n = 1 -> "Aborted"
      [] n = 2 -> "Interrupted"
      [] n = 3 -> "Fatal"
      [] n = 4 -> "ErrorUnknown"
      [] n = 5 -> "ErrorElectrical"
      [] n = 6 -> "ErrorServo"
      [] n = 7 -> "ErrorRead"
      [] n = 8 -> "ErrorHandling"
      [] n = 15 -> "InProgress"
      [] OTHER -> "SuccessOrNever"

parse_smart_data(raw) ==
    Ok([offline_data_collection_status |-> offline_data_collection_status(raw[362]),
        total_offline_data_collection_seconds |-> raw[364] + 256 * raw[365],
        self_test_execution_status |->
            self_test_execution_status(BitAnd(raw[363] \div 16, 15)),
        self_test_execution_percent_remaining |-> 10 * BitAnd(raw[363], 15),
        short_and_extended_test_available |-> BitAnd(raw[367], 16) # 0,
        conveyance_test_available |-> BitAnd(raw[367], 32) # 0,
        start_test_available |-> BitAnd(raw[367], 1) # 0,
        abort_test_available |-> BitAnd(raw[367], 41) # 0,
        short_test_polling_minutes |-> raw[372],
        extended_test_polling_minutes |->
            (IF raw[373] # 255 THEN raw[373] ELSE raw[375] + 256 * raw[376]),
        conveyance_test_polling_minutes |-> raw[374]])

\* Disk::parse_identify, Disk::parse_smart
parse_identify(self) ==
    IF self.identify_data = None THEN Err(ErrNoData)
    ELSE parse_identify_data(self.identify_data[1])

parse_smart(self) ==
    IF self.smart_data = None THEN Err(ErrNoData)
    ELSE parse_smart_data(self.smart_data[1])

(***************************************************************************)
(* The environment: what the kernel and the blob file may hold.            *)
(***************************************************************************)
\* a sense buffer with the given bytes 0, 8, 9 and ATA status return
\* descriptor fields desc[4], desc[5], desc[9], desc[11], desc[13]
Sense(b0, b8, b9, d4, d5, d9, d11, d13) ==
    [Zeros(32) EXCEPT ![0] = b0, ![8] = b8, ![9] = b9, ![8 + 4] = d4, ![8 + 5] = d5,
                      ![8 + 9] = d9, ![8 + 11] = d11, ![8 + 13] = d13]

GoodSense(d4, d5, d9, d11, d13) == Sense(114, 9, 12, d4, d5, d9, d11, d13)
PlainSense == GoodSense(0, 0, 0, 0, 80)
BadSense == Sense(112, 0, 0, 0, 255, 79, 194, 80)

\* 512-byte sectors
IdentSmartOn == [Zeros(512) EXCEPT ![54] = 65, ![164] = 107]   \* byte 164 = 0x6B
IdentSmartOff == [Zeros(512) EXCEPT ![54] = 66, ![164] = 106]  \* byte 164 = 0x6A
IdentifySectors == {IdentSmartOn, IdentSmartOff}

SmartSectorA == [Zeros(512) EXCEPT ![2] = 5, ![5] = 100, ![6] = 100, ![7] = 3]
\* slot 0: temperature 25; slot 1: total-lbas-written with raw value 2^39
SmartSectorB == [Zeros(512) EXCEPT ![2] = 194, ![5] = 100, ![6] = 100, ![7] = 25,
                                   ![14] = 241, ![17] = 100, ![18] = 100, ![23] = 128,
                                   ![363] = 249, ![367] = 17]
SmartSectors == {SmartSectorA, SmartSectorB}

ThresholdSectorA == [Zeros(512) EXCEPT ![2] = 5, ![3] = 36]
ThresholdSectors == {ThresholdSectorA}

FailReply == Reply(FALSE, Zeros(32), Zeros(512))

\* replies to a command that reads a sector
DataReplies(sectors) ==
    {FailReply, Reply(TRUE, BadSense, IdentSmartOn)}
    \cup {Reply(TRUE, PlainSense, sec) : sec \in sectors}

\* replies to a non-data command: <<SECTOR_COUNT, LBA_MID, LBA_HIGH>> and the
\* two bytes the sources call STATUS (desc[4] and desc[13])
LbaPairs == {<<79, 194>>, <<244, 44>>, <<0, 0>>, <<79, 0>>, <<244, 0>>, <<79, 44>>,
             <<244, 194>>, <<0, 194>>, <<194, 79>>}
RegisterReplies ==
    {GoodSense(0, 0, lba[1], lba[2], 80) : lba \in LbaPairs}
    \cup {GoodSense(st[1], sc, 79, 194, st[2]) :
            sc \in {0, 128, 255}, st \in {<<0, 80>>, <<1, 81>>, <<0, 81>>, <<1, 80>>}}

NonDataReplies ==
    {FailReply, Reply(TRUE, BadSense, Zeros(512))}
    \cup {Reply(TRUE, sense, Zeros(512)) : sense \in RegisterReplies}

\* BLKGETSIZE64
DiskSize == 1000204800
SizeReplies == {[ok |-> FALSE, size |-> 0], [ok |-> TRUE, size |-> DiskSize]}

\* blob files, built block by block
be_bytes(v) == << (v \div 16777216) % 256, (v \div 65536) % 256, (v \div 256) % 256, v % 256 >>
Block(tag, size, payload) == be_bytes(tag) \o be_bytes(size) \o payload
SectorBlock(tag, sector) == Block(tag, 512, Seq1(sector))
StatusBlock(v) == Block(TagSmartStatus, 4, be_bytes(v))

\* the blocks of each blob file, in file order
Written(tag, payload) == [tag |-> tag, payload |-> payload]
BlobFileBlocks ==
    { << Written(TagIdentify, Seq1(IdentSmartOn)) >>,
      << Written(TagIdentify, Seq1(IdentSmartOn)), Written(TagSmartStatus, be_bytes(1)),
         Written(TagSmartData, Seq1(SmartSectorA)),
         Written(TagSmartThresholds, Seq1(ThresholdSectorA)) >>,
      << Written(TagIdentify, Seq1(IdentSmartOn)), Written(TagSmartStatus, be_bytes(0)),
         Written(TagSmartData, Seq1(SmartSectorB)) >>,
      << Written(TagSmartStatus, be_bytes(256)), Written(TagIdentify, Seq1(IdentSmartOff)),
         Written(TagSmartData, Seq1(SmartSectorA)) >>,
      << Written(TagSmartData, Seq1(SmartSectorA)) >> }

RECURSIVE WrittenBytes(_)
WrittenBytes(blocks) ==
    IF blocks = << >> THEN << >>
    ELSE Block(Head(blocks).tag, Len(Head(blocks).payload), Head(blocks).payload)
         \o WrittenBytes(Tail(blocks))

FileOf(blocks) == Bytes0(WrittenBytes(blocks))

BlobFiles == { FileOf(blocks) : blocks \in BlobFileBlocks }

(***************************************************************************)
(* The handle state machine.                                               *)
(*   disk     the handle (None before open and after drop)                 *)
(*   input    the arguments of the call: the bytes of the blob file a blob *)
(*            handle was loaded from (kept while the handle lives)         *)
(*   fds      the number of file descriptors the process holds             *)
(*   op       the last operation called                                    *)
(*   replies  the kernel's replies that were at its disposal               *)
(*   result   what it returned                                             *)
(*   regs     its register file at exit                                    *)
(*   buf      the caller's data buffer at exit (dispatcher calls only)     *)
(*   subs     the kernel submissions it made, in order                     *)
(***************************************************************************)
VARIABLES disk, input, fds, op, replies, result, regs, buf, subs

vars == << disk, input, fds, op, replies, result, regs, buf, subs >>

\* the replies the kernel may give a handle of this dialect
HandleReplies(disk_type, set) ==
    IF disk_type \in {AtaPassthrough16, AtaPassthrough12}
    THEN {<< k >> : k \in set} ELSE {<< FailReply >>}

Init ==
    /\ disk = None
    /\ input = None
    /\ fds = 0
    /\ op = "new"
    /\ replies = << >>
    /\ result = Ok(Unit)
    /\ regs = None
    /\ buf = None
    /\ subs = << >>

\* a handle operation called with the kernel replies k returns r
Returns(name, k, r) ==
    /\ op' = name
    /\ replies' = k
    /\ result' = r.res
    /\ regs' = r.registers
    /\ subs' = r.subs
    /\ buf' = None

\* Disk::open when the file cannot be opened
OpenFails ==
    /\ disk = None
    /\ Returns("open", << >>, Ret(Err(ErrIoOs), None, None, << >>))
    /\ UNCHANGED << disk, input, fds >>

Open ==
    /\ disk = None
    /\ \E size_reply \in SizeReplies,
          a16 \in DataReplies({Zeros(512), IdentSmartOn}),
          a12 \in DataReplies({Zeros(512), IdentSmartOn}) :
         LET r == open(size_reply, << << a16 >>, << a12 >> >>)
         IN  /\ Returns("open", IF size_reply.ok THEN << << a16 >>, << a12 >> >> ELSE << >>, r)
             /\ disk' = r.self
             \* the File opened is closed on return unless the handle took it
             /\ fds' = IF r.self # None /\ r.self[1].file # None THEN fds + 1 ELSE fds
    /\ input' = None

DiskFromBlob ==
    /\ disk = None
    /\ \E data \in BlobFiles :
         LET r == disk_from_blob(data)
         IN  /\ Returns("disk_from_blob", << >>, r)
             /\ disk' = r.self
             /\ input' = IF r.res.ok THEN Some(data) ELSE None
    /\ UNCHANGED fds

CheckSleepMode ==
    /\ disk # None
    /\ \E k \in HandleReplies(disk[1].disk_type, NonDataReplies) :
         LET r == check_sleep_mode(disk[1], k)
         IN  Returns("check_sleep_mode", k, r) /\ disk' = Some(r.self)
    /\ UNCHANGED << input, fds >>

ReadIdentify ==
    /\ disk # None
    /\ \E k \in HandleReplies(disk[1].disk_type,
                              DataReplies(IdentifySectors \cup {Zeros(512)})) :
         LET r == read_identify(disk[1], k)
         IN  Returns("read_identify", k, r) /\ disk' = Some(r.self)
    /\ UNCHANGED << input, fds >>

ReadSmartData ==
    /\ disk # None
    /\ \E k \in HandleReplies(disk[1].disk_type, DataReplies(SmartSectors)) :
         LET r == read_smart_data(disk[1], k)
         IN  Returns("read_smart_data", k, r) /\ disk' = Some(r.self)
    /\ UNCHANGED << input, fds >>

ReadSmartThresholds ==
    /\ disk # None
    /\ \E k \in HandleReplies(disk[1].disk_type, DataReplies(ThresholdSectors)) :
         LET r == read_smart_thresholds(disk[1], k)
         IN  Returns("read_smart_thresholds", k, r) /\ disk' = Some(r.self)
    /\ UNCHANGED << input, fds >>

SmartStatus ==
    /\ disk # None
    /\ \E k \in HandleReplies(disk[1].disk_type, NonDataReplies) :
         LET r == smart_status(disk[1], k)
         IN  Returns("smart_status", k, r) /\ disk' = Some(r.self)
    /\ UNCHANGED << input, fds >>

ParseIdentify ==
    /\ disk # None
    /\ Returns("parse_identify", << >>, Ret(parse_identify(disk[1]), disk[1], None, << >>))
    /\ UNCHANGED << disk, input, fds >>

ParseSmart ==
    /\ disk # None
    /\ Returns("parse_smart", << >>, Ret(parse_smart(disk[1]), disk[1], None, << >>))
    /\ UNCHANGED << disk, input, fds >>

\* overflow_checks: whether the build panics on integer overflow or wraps
ParseSmartAttributes ==
    /\ disk # None
    /\ \E overflow_checks \in BOOLEAN :
         Returns("parse_smart_attributes", << >>,
                 Ret(parse_smart_attributes(disk[1], overflow_checks), disk[1], None, << >>))
    /\ UNCHANGED << disk, input, fds >>

\* the handle goes out of scope: its File, if any, is closed
Drop ==
    /\ disk # None
    /\ Returns("drop", << >>, Ret(Ok(Unit), None, None, << >>))
    /\ disk' = None
    /\ input' = None
    /\ fds' = IF disk[1].file # None THEN fds - 1 ELSE fds

Next ==
    \/ OpenFails
    \/ Open
    \/ DiskFromBlob
    \/ CheckSleepMode
    \/ ReadIdentify
    \/ ReadSmartData
    \/ ReadSmartThresholds
    \/ SmartStatus
    \/ ParseIdentify
    \/ ParseSmart
    \/ ParseSmartAttributes
    \/ Drop

Spec == Init /\ [][Next]_vars

(***************************************************************************)
(* The dispatcher on its own: send_ata_command as a function of its        *)
(* arguments and of the kernel's replies.  The call is drawn in the        *)
(* initial state and kept in `input`.                                      *)
(***************************************************************************)
\* a register file whose twelve bytes all differ
MarkedRegisters == [i \in 0..11 |-> 17 + i]

\* a caller's buffer for a transfer to the device
OutSector == [Zeros(512) EXCEPT ![0] = 90, ![511] = 165]

Call(disk_type, command, direction, registers, data) ==
    [disk_type |-> disk_type, command |-> command, direction |-> direction,
     registers |-> registers, data |-> data]

DispatchCalls ==
    {Call(t, c, x[1], r, x[2]) :
        t \in DiskTypes,
        c \in {IdentifyDevice, CheckPowerMode, Smart},
        x \in {<< DirNone, None >>, << DirIn, Some(Zeros(512)) >>,
               << DirOut, Some(OutSector) >>},
        r \in {AtaRegisters_new, smart_registers(ReturnStatus), MarkedRegisters}}

\* a sense buffer whose descriptor bytes all differ
MarkedSense == [GoodSense(0, 0, 0, 0, 0) EXCEPT ![8 + 3] = 33, ![8 + 4] = 34, ![8 + 5] = 35,
                  ![8 + 7] = 37, ![8 + 9] = 39, ![8 + 11] = 41, ![8 + 12] = 42,
                  ![8 + 13] = 43]

SenseReplies ==
    {MarkedSense, PlainSense, BadSense,
     [MarkedSense EXCEPT ![0] = 112], [MarkedSense EXCEPT ![8] = 0],
     [MarkedSense EXCEPT ![9] = 0]}

\* the 8-byte Sunplus response and the 16-byte JMicron register snapshot
SunplusResponse == [i \in 0..7 |-> 49 + i]
JmicronSnapshot == [i \in 0..15 |-> 65 + i]
JmicronPorts == {0, 4, 64, 68, 187}

\* the kernel's replies to the submissions of one dispatcher call
KernelReplies(disk_type) ==
    CASE disk_type \in {AtaPassthrough16, AtaPassthrough12} ->
             {<< FailReply >>}
             \cup {<< Reply(TRUE, sense, IdentSmartOn) >> : sense \in SenseReplies}
      [] disk_type = Sunplus ->
             {<< k1, k2 >> :
                k1 \in {FailReply, Reply(TRUE, Zeros(32), IdentSmartOn)},
                k2 \in {FailReply, Reply(TRUE, Zeros(32), SunplusResponse)}}
      [] disk_type = Jmicron ->
             {<< k1, k2, k3 >> :
                k1 \in {FailReply}
                       \cup {Reply(TRUE, Zeros(32), [i \in 0..0 |-> port]) :
                               port \in JmicronPorts},
                k2 \in {FailReply, Reply(TRUE, Zeros(32), IdentSmartOn)},
                k3 \in {FailReply, Reply(TRUE, Zeros(32), JmicronSnapshot)}}
      [] OTHER -> {<< >>}

DispatchInit ==
    /\ disk = None
    /\ input \in {Some(c) : c \in DispatchCalls}
    /\ fds = 1
    /\ op = "new"
    /\ replies = << >>
    /\ result = Ok(Unit)
    /\ regs = None
    /\ buf = None
    /\ subs = << >>

SendAtaCommand ==
    /\ op = "new"
    /\ input # None
    /\ \E k \in KernelReplies(input[1].disk_type) :
         LET c == input[1]
             o == send_ata_command(c.disk_type, c.command, c.direction,
                                   c.registers, c.data, k)
         IN  /\ replies' = k
             /\ result' = o.res
             /\ regs' = Some(o.registers)
             /\ buf' = o.data
             /\ subs' = o.subs
    /\ op' = "send_ata_command"
    /\ UNCHANGED << disk, input, fds >>

DispatchNext == SendAtaCommand

DispatchSpec == DispatchInit /\ [][DispatchNext]_vars

(***************************************************************************)
(* parse_blob on its own.  A file is written block by block from a shape:  *)
(* a sequence of blocks [tag, size, payload] and a number of bytes left    *)
(* over after the last block.  The shape and the bytes are drawn in the    *)
(* initial state and kept in `input`.                                      *)
(***************************************************************************)
MaxBlocks == 3

\* the length of a block header: tag and size
HeaderLen == 8

TagUnknown == 1482184792     \* 'XXXX'

BlobBlock(tag, size, payload) == [tag |-> tag, size |-> size, payload |-> payload]

\* blocks whose payload is as long as their size field says
WholeBlocks ==
    {BlobBlock(TagIdentify, 512, Seq1(IdentSmartOn)),
     BlobBlock(TagSmartStatus, 4, be_bytes(1)),
     BlobBlock(TagSmartData, 512, Seq1(SmartSectorA)),
     BlobBlock(TagSmartThresholds, 512, Seq1(ThresholdSectorA)),
     BlobBlock(TagIdentify, 4, be_bytes(0)),
     BlobBlock(TagSmartStatus, 512, Seq1(Zeros(512))),
     BlobBlock(TagUnknown, 4, be_bytes(0))}

\* blocks cut off inside their payload: only ever the last of a file
CutBlocks ==
    {BlobBlock(TagSmartData, 512, SubSeq(Seq1(SmartSectorA), 1, 100)),
     BlobBlock(TagSmartStatus, 4, << 0 >>)}

RECURSIVE BlockSeqs(_)
BlockSeqs(n) ==
    IF n = 0 THEN {<< >>}
    ELSE LET shorter == BlockSeqs(n - 1)
         IN  shorter \cup {Append(bs, b) : bs \in {x \in shorter : Len(x) = n - 1},
                                            b \in WholeBlocks}

\* a fragment left after the last block is shorter than a header
Trails == {0, 1, 3, HeaderLen - 1}

BlobShapes ==
    {[blocks |-> bs, trail |-> t] : bs \in BlockSeqs(MaxBlocks), t \in Trails}
    \cup {[blocks |-> Append(bs, b), trail |-> 0] :
            bs \in BlockSeqs(MaxBlocks - 1), b \in CutBlocks}

RECURSIVE BlockBytes(_)
BlockBytes(blocks) ==
    IF blocks = << >> THEN << >>
    ELSE Block(Head(blocks).tag, Head(blocks).size, Head(blocks).payload)
         \o BlockBytes(Tail(blocks))

\* the bytes of the file written from a shape
FileBytes(shape) ==
    Bytes0(BlockBytes(shape.blocks) \o [i \in 1..shape.trail |-> 0])

BlobInit ==
    /\ disk = None
    /\ input \in {Some([shape |-> s, data |-> FileBytes(s)]) : s \in BlobShapes}
    /\ fds = 0
    /\ op = "new"
    /\ replies = << >>
    /\ result = Ok(Unit)
    /\ regs = None
    /\ buf = None
    /\ subs = << >>

ParseBlob ==
    /\ op = "new"
    /\ input # None
    /\ op' = "parse_blob"
    /\ result' = parse_blob(input[1].data)
    /\ UNCHANGED << disk, input, fds, replies, regs, buf, subs >>

BlobNext == ParseBlob

BlobSpec == BlobInit /\ [][BlobNext]_vars

(***************************************************************************)
(* Properties of the handle (Spec).                                        *)
(***************************************************************************)
\* the handle was opened on a device and the probe found a pass-through dialect
Live == disk # None /\ disk[1].disk_type \in {AtaPassthrough16, AtaPassthrough12}

\* the handle holds blob data
IsBlob == disk # None /\ disk[1].disk_type = Blob

\* the one submission of the last operation went through and its sense
\* buffer carried an ATA return descriptor
Answered ==
    Len(subs) = 1 /\ Len(replies) = 1 /\ replies[1].ok /\ ~sense_invalid(replies[1].sense)

\* the IDENTIFY cache is filled and reports SMART as supported / unsupported
SmartSupported ==
    disk # None /\ disk[1].identify_data # None
    /\ BitAnd(disk[1].identify_data[1][164], 1) = 1
SmartUnsupported ==
    disk # None /\ disk[1].identify_data # None
    /\ BitAnd(disk[1].identify_data[1][164], 1) = 0

\* C1: on a blob handle, in every state of the handle, check_sleep_mode,
\* read_identify, read_smart_data and read_smart_thresholds each fail with
\* NotSupported and submit nothing to the kernel.
C1_BlobRefusesLiveCommands ==
    (IsBlob /\ op \in {"check_sleep_mode", "read_identify", "read_smart_data",
                        "read_smart_thresholds"})
    => (result = Err(ErrNotSupported) /\ subs = << >>)

\* what does hold of a blob handle: no operation submits anything
BlobNeverSubmits == IsBlob => subs = << >>

\* C3: Disk::open probes ATA_PT16 first and ATA_PT12 second, each with one
\* IDENTIFY DEVICE submission; the dialect is ATA_PT16 if the first probe is
\* answered with a buffer that is not all zeros, else ATA_PT12 if the second
\* is, else NONE, and a probe after the accepted one is never submitted.
ProbeAccepted(k) == k.ok /\ ~sense_invalid(k.sense) /\ ~AllZero(k.data)

C3_ProbeOrder ==
    (op = "open" /\ result.ok) =>
        LET first == replies[1][1]
            second == replies[2][1]
        IN  /\ disk[1].disk_type =
                  IF ProbeAccepted(first) THEN AtaPassthrough16
                  ELSE IF ProbeAccepted(second) THEN AtaPassthrough12
                  ELSE DiskTypeNone
            /\ Len(subs) = IF ProbeAccepted(first) THEN 1 ELSE 2
            /\ subs[1].cmd_len = 16 /\ subs[1].cdb[0] = 133 /\ subs[1].cdb[14] = IdentifyDevice
            /\ Len(subs) = 2 =>
                 (subs[2].cmd_len = 12 /\ subs[2].cdb[0] = 161 /\ subs[2].cdb[9] = IdentifyDevice)

\* the first probe is answered with an all-zero buffer and the second accepted
C3_Witness ==
    /\ op = "open" /\ result.ok
    /\ replies[1][1].ok /\ ~sense_invalid(replies[1][1].sense) /\ AllZero(replies[1][1].data)
    /\ ProbeAccepted(replies[2][1])
    /\ disk[1].disk_type = AtaPassthrough12
    /\ Len(subs) = 2

\* the decision smart_status takes from the returned LBA registers
StatusDecision(invalid) ==
    LET lba_mid == replies[1].sense[8 + 9]
        lba_high == replies[1].sense[8 + 11]
        pt12 == disk[1].disk_type = AtaPassthrough12
    IN  /\ (result = Ok(Bool(TRUE))) <=> (lba_mid = 79 /\ (pt12 \/ lba_high = 194))
        /\ (result = Ok(Bool(FALSE))) <=> (lba_mid = 244 /\ (pt12 \/ lba_high = 44))
        /\ ~result.ok => result = Err(invalid)

\* C4: on a live handle with SMART supported, an answered smart_status
\* returns true iff LBA_MID = 0x4F and LBA_HIGH = 0xC2, false iff LBA_MID =
\* 0xF4 and LBA_HIGH = 0x2C, and fails with InvalidData for every other pair;
\* under ATA_PT12 LBA_MID alone decides.
C4_SmartStatusDecode ==
    (op = "smart_status" /\ Live /\ SmartSupported /\ Answered)
    => StatusDecision(ErrInvalidData)

\* what does hold: the same decision, the failure being an Io error of
\* kind InvalidData
SmartStatusDecodeIo ==
    (op = "smart_status" /\ Live /\ SmartSupported /\ Answered)
    => StatusDecision(ErrIoInvalidData)

\* C5: an answered check_sleep_mode returns awake (true) iff the returned
\* SECTOR_COUNT is 0xFF or 0x80 and the returned status byte has bit 0 clear.
C5_AwakeIffStatusClear ==
    (op = "check_sleep_mode" /\ Live /\ Answered)
    => ((result = Ok(Bool(TRUE)))
        <=> (regs[1][3] \in {255, 128} /\ BitAnd(status(regs[1]), 1) = 0))

\* what does hold: SECTOR_COUNT alone decides
AwakeIffSectorCount ==
    (op = "check_sleep_mode" /\ Live /\ Answered)
    => (result = Ok(Bool(regs[1][3] \in {255, 128})))

\* C6: check_sleep_mode is valid on a live handle that has not read IDENTIFY:
\* it submits CHECK_POWER_MODE and does not fail for the want of the cache.
C6_SleepCheckBeforeIdentify ==
    (op = "check_sleep_mode" /\ Live /\ disk[1].identify_data = None)
    => (Len(subs) = 1 /\ result # Err(ErrNotSupported) /\ result # Err(ErrNoData))

\* C7: an operation whose required cache is missing fails with NoData and
\* submits nothing: read_smart_data, read_smart_thresholds, smart_status and
\* parse_identify without IDENTIFY data, parse_smart and parse_smart_attributes
\* without SMART data.
C7_NoDataWithoutCache ==
    [][ /\ (disk # None /\ disk[1].identify_data = None
            /\ op' \in {"read_smart_data", "read_smart_thresholds", "smart_status",
                        "parse_identify"})
           => (result' = Err(ErrNoData) /\ subs' = << >> /\ disk' = disk)
        /\ (disk # None /\ disk[1].smart_data = None
            /\ op' \in {"parse_smart", "parse_smart_attributes"})
           => (result' = Err(ErrNoData) /\ subs' = << >> /\ disk' = disk) ]_vars

\* read_smart_data called on a live handle before IDENTIFY was read
C7_Witness ==
    /\ op = "read_smart_data" /\ Live
    /\ disk[1].identify_data = None
    /\ result = Err(ErrNoData)
    /\ subs = << >>

\* C8: once read_smart_data has succeeded on a live handle, parse_smart and
\* parse_smart_attributes succeed on every later call without a submission,
\* and no operation empties a filled cache.
C8_ParsersSucceedOnceRead ==
    [][ (Live /\ disk[1].smart_data # None /\ disk' # None) =>
          /\ op' \in {"parse_smart", "parse_smart_attributes"}
               => (result'.ok /\ subs' = << >>)
          /\ disk'[1].smart_data # None
          /\ disk[1].identify_data # None => disk'[1].identify_data # None
          /\ disk[1].smart_thresholds # None => disk'[1].smart_thresholds # None ]_vars

\* what does hold: no operation on a handle empties a filled cache, and
\* parse_smart succeeds whenever the SMART cache is filled
CachesNeverEmptied ==
    [][ (disk # None /\ disk' # None) =>
          /\ disk[1].identify_data # None => disk'[1].identify_data # None
          /\ disk[1].smart_data # None => disk'[1].smart_data # None
          /\ disk[1].smart_thresholds # None => disk'[1].smart_thresholds # None
          /\ (disk[1].smart_data # None /\ op' = "parse_smart")
               => (result'.ok /\ subs' = << >>) ]_vars

\* C9: with IDENTIFY cached and its SMART bit clear, read_smart_data,
\* read_smart_thresholds and smart_status fail with SmartNotAvailable and
\* submit nothing.
C9_SmartNotAvailable ==
    (SmartUnsupported /\ op \in {"read_smart_data", "read_smart_thresholds", "smart_status"})
    => (result = Err(ErrSmartNotAvailable) /\ subs = << >>)

\* what does hold: they fail with NotSupported, submit nothing and leave the
\* handle as it was
SmartOffRefused ==
    [][ (SmartUnsupported
         /\ op' \in {"read_smart_data", "read_smart_thresholds", "smart_status"})
        => (result' = Err(ErrNotSupported) /\ subs' = << >> /\ disk' = disk) ]_vars

(***************************************************************************)
(* Properties of the dispatcher (DispatchSpec).                            *)
(***************************************************************************)
\* C2: send_ata_command with dialect BLOB or NONE returns NotSupported for
\* every command and direction, submits nothing, and leaves the register file
\* and the data buffer as they were.
C2_NoDialectNotSupported ==
    (op = "send_ata_command" /\ input[1].disk_type \in {Blob, DiskTypeNone})
    => /\ result = Err(ErrNotSupported)
       /\ subs = << >>
       /\ regs = Some(input[1].registers)
       /\ buf = input[1].data

\* what does hold: the error is an Io error of kind Unsupported
NoDialectUnsupported ==
    (op = "send_ata_command" /\ input[1].disk_type \in {Blob, DiskTypeNone})
    => /\ result = Err(ErrIoUnsupported)
       /\ subs = << >>
       /\ regs = Some(input[1].registers)
       /\ buf = input[1].data

\* a pass-through call whose one submission went through with this sense
PassthroughReplied ==
    /\ op = "send_ata_command"
    /\ input[1].disk_type \in {AtaPassthrough16, AtaPassthrough12}
    /\ Len(replies) = 1 /\ replies[1].ok

\* byte 0 is not 0x72, or byte 8 is not 0x09, or byte 9 is not 0x0C
SenseMalformed(sense) == sense[0] # 114 \/ sense[8] # 9 \/ sense[9] # 12

\* C16: the ATA_PT16 and ATA_PT12 sense decode rejects with InvalidData every
\* sense buffer whose byte 0 is not 0x72 or whose byte 8 is not 0x09 or whose
\* byte 9 is not 0x0C, and then leaves the caller's register file as it was
\* before the submit.
C16_MalformedSenseRejected ==
    (PassthroughReplied /\ SenseMalformed(replies[1].sense))
    => /\ result = Err(ErrInvalidData)
       /\ regs = Some(input[1].registers)

\* what does hold: the rejection is an Io error of kind InvalidData, the
\* register file is untouched, and every other sense buffer is decoded
MalformedSenseRejectedIo ==
    /\ (PassthroughReplied /\ SenseMalformed(replies[1].sense))
         => /\ result = Err(ErrIoInvalidData)
            /\ regs = Some(input[1].registers)
    /\ (PassthroughReplied /\ ~SenseMalformed(replies[1].sense))
         => /\ result.ok
            /\ regs[1][1] = replies[1].sense[8 + 3]

\* only byte 0 is wrong (0x70): rejected, registers as passed in
OnlyByteZeroWrong ==
    /\ PassthroughReplied
    /\ replies[1].sense[0] = 112 /\ replies[1].sense[8] = 9 /\ replies[1].sense[9] = 12
    /\ result = Err(ErrIoInvalidData)
    /\ regs = Some(MarkedRegisters)

\* a call of the dispatcher on one of the four command dialects that succeeded
Submitted ==
    /\ op = "send_ata_command" /\ result.ok
    /\ input[1].disk_type \in {AtaPassthrough16, AtaPassthrough12, Sunplus, Jmicron}

\* the byte of the dialect's return buffer that its decoder names STATUS, and
\* the one it names ERROR (commands.rs:156 and 162, 245 and 251, 339 and
\* 345, 471 and 477)
ReturnedStatus ==
    CASE input[1].disk_type \in {AtaPassthrough16, AtaPassthrough12} -> replies[1].sense[8 + 4]
      [] input[1].disk_type = Sunplus -> replies[2].data[7]
      [] input[1].disk_type = Jmicron -> replies[3].data[14]
ReturnedError ==
    CASE input[1].disk_type \in {AtaPassthrough16, AtaPassthrough12} -> replies[1].sense[8 + 13]
      [] input[1].disk_type = Sunplus -> replies[2].data[1]
      [] input[1].disk_type = Jmicron -> replies[3].data[13]

\* C22: after a successful submit on ATA_PT16, ATA_PT12, SUNPLUS or JMICRON,
\* index 11 of the register file holds the returned STATUS register and
\* index 2 the returned ERROR register, whatever the dialect.
C22_CanonicalLayout ==
    Submitted => (regs[1][11] = ReturnedStatus /\ regs[1][2] = ReturnedError)

\* what does hold: SUNPLUS follows the layout, the other three dialects put
\* the byte they name STATUS at index 2 and the byte they name ERROR at 11
LayoutByDialect ==
    Submitted =>
        IF input[1].disk_type = Sunplus
        THEN regs[1][11] = ReturnedStatus /\ regs[1][2] = ReturnedError
        ELSE regs[1][11] = ReturnedError /\ regs[1][2] = ReturnedStatus

\* a JMICRON snapshot with different STATUS and ERROR bytes, stored swapped
JmicronSwapped ==
    /\ Submitted /\ input[1].disk_type = Jmicron
    /\ ReturnedStatus # ReturnedError
    /\ regs[1][11] = ReturnedError /\ regs[1][2] = ReturnedStatus

\* a JMICRON submit, the port byte the bridge returned, and the kind of the
\* three submissions in the order they reached the kernel
JmicronCalled == op = "send_ata_command" /\ input[1].disk_type = Jmicron
PortByte == replies[1].data[0]
NoPortConnected == BitAnd(PortByte, 4) = 0 /\ BitAnd(PortByte, 64) = 0
InJmicronOrder ==
    /\ Len(subs) >= 1 => (subs[1].cdb = jmicron_port_cdb /\ subs[1].dxfer_len = 1)
    /\ Len(subs) >= 2 => subs[2].cdb[11] = input[1].command
    /\ Len(subs) >= 3 => (subs[3].cdb = jmicron_regs_cdb(PortByte) /\ subs[3].dxfer_len = 16)
\* how many submissions are performed: up to and including the first that fails
JmicronPerformed ==
    IF ~replies[1].ok \/ NoPortConnected THEN 1
    ELSE IF ~replies[2].ok THEN 2
    ELSE 3

\* C23: a JMICRON submit performs the port read, the ATA command and the
\* register snapshot read in that order; a port byte with 0x04 and 0x40 both
\* clear fails with NotSupported before the ATA command is submitted; after a
\* failed submission no later one is performed and the caller's register file
\* is unchanged.
C23_JmicronSequence ==
    JmicronCalled =>
        /\ InJmicronOrder
        /\ Len(subs) = JmicronPerformed
        /\ result.ok <=> (replies[1].ok /\ ~NoPortConnected /\ replies[2].ok /\ replies[3].ok)
        /\ (replies[1].ok /\ NoPortConnected) => result = Err(ErrNotSupported)
        /\ ~result.ok => regs = Some(input[1].registers)

\* the same with the error the port check returns, an I/O error of kind
\* NotFound
JmicronSequenceIo ==
    JmicronCalled =>
        /\ InJmicronOrder
        /\ Len(subs) = JmicronPerformed
        /\ result.ok <=> (replies[1].ok /\ ~NoPortConnected /\ replies[2].ok /\ replies[3].ok)
        /\ (replies[1].ok /\ NoPortConnected) => result = Err(ErrIoNotFound)
        /\ ~result.ok => regs = Some(input[1].registers)

\* port byte 0xBB has both bits clear: one submission, the ATA command never sent
NoPortRefused ==
    /\ JmicronCalled /\ replies[1].ok /\ PortByte = 187
    /\ Len(subs) = 1 /\ result = Err(ErrIoNotFound) /\ regs = Some(input[1].registers)
\* the snapshot read fails after the ATA command went out
SnapshotFailed ==
    /\ JmicronCalled /\ Len(subs) = 3 /\ ~replies[3].ok
    /\ ~result.ok /\ regs = Some(input[1].registers)

(***************************************************************************)
(* Properties of parse_blob (BlobSpec).                                    *)
(***************************************************************************)
FixedSize(tag) == IF tag = TagSmartStatus THEN 4 ELSE 512

\* every block of the shape is well formed, no tag occurs twice, IDFY is there
WellFormedBlocks(shape) ==
    /\ \A i \in 1..Len(shape.blocks) :
         LET b == shape.blocks[i]
         IN  /\ b.tag \in {TagIdentify, TagSmartStatus, TagSmartData, TagSmartThresholds}
             /\ b.size = FixedSize(b.tag)
             /\ Len(b.payload) = b.size
    /\ \A i, j \in 1..Len(shape.blocks) :
         shape.blocks[i].tag = shape.blocks[j].tag => i = j
    /\ \E i \in 1..Len(shape.blocks) : shape.blocks[i].tag = TagIdentify

\* C10: parse_blob accepts a byte sequence iff it is a sequence of blocks
\* with known tags, each of its tag's fixed size, no tag twice, every payload
\* inside the input, and an IDFY block among them; it rejects every other
\* input with InvalidData.
C10_AcceptsIffBlockSequence ==
    op = "parse_blob" =>
        /\ result.ok <=> (WellFormedBlocks(input[1].shape) /\ input[1].shape.trail = 0)
        /\ ~result.ok => result = Err(ErrInvalidData)

\* what does hold: bytes left after the last block, fewer than a header,
\* are accepted too
AcceptsBlocksThenFragment ==
    op = "parse_blob" =>
        /\ result.ok <=> WellFormedBlocks(input[1].shape)
        /\ ~result.ok => result = Err(ErrInvalidData)

(***************************************************************************)
(* Blob records written and read back (RecordSpec).  The crate has no      *)
(* encoder; encode_blob writes a record in the wire layout the format      *)
(* description gives: for each block present, in the order IDFY, SMST,     *)
(* SMDT, SMTH, the tag and the size as big-endian u32 and then the         *)
(* payload.  A record and its bytes are drawn in the initial state and     *)
(* parsed by ParseBlob.                                                    *)
(***************************************************************************)
encode_blob(record) ==
    Bytes0(
        (IF record.identify = None THEN << >>
         ELSE SectorBlock(TagIdentify, record.identify[1]))
        \o (IF record.smart_status = None THEN << >>
            ELSE StatusBlock(IF record.smart_status[1] THEN 1 ELSE 0))
        \o (IF record.smart_data = None THEN << >>
            ELSE SectorBlock(TagSmartData, record.smart_data[1]))
        \o (IF record.smart_thresholds = None THEN << >>
            ELSE SectorBlock(TagSmartThresholds, record.smart_thresholds[1])))

\* sectors filled with one byte
FilledSector(b) == [i \in 0..511 |-> b]

BlobRecords ==
    {BlobData(Some(idfy), smst, smdt, smth) :
        idfy \in {IdentSmartOn, IdentSmartOff, FilledSector(170)},
        smst \in {None, Some(TRUE), Some(FALSE)},
        smdt \in {None, Some(SmartSectorA), Some(SmartSectorB), Some(FilledSector(187))},
        smth \in {None, Some(ThresholdSectorA), Some(FilledSector(204))}}

RecordInit ==
    /\ disk = None
    /\ input \in {Some([record |-> r, data |-> encode_blob(r)]) : r \in BlobRecords}
    /\ fds = 0
    /\ op = "new"
    /\ replies = << >>
    /\ result = Ok(Unit)
    /\ regs = None
    /\ buf = None
    /\ subs = << >>

RecordNext == ParseBlob

RecordSpec == RecordInit /\ [][RecordNext]_vars

\* C11: for every record with IDFY present and each of SMST, SMDT, SMTH
\* present or absent, parsing the bytes it is encoded to yields a record
\* equal to the original: the same blocks present, with the same payloads.
C11_BlobRoundTrip ==
    op = "parse_blob" => result = Ok(input[1].record)

\* IDFY of 0xAA, SMST = 1, SMDT of 0xBB, no SMTH: parsed back as written
C11_Witness ==
    /\ op = "parse_blob"
    /\ input[1].record = BlobData(Some(FilledSector(170)), Some(TRUE),
                                  Some(FilledSector(187)), None)
    /\ result.ok
    /\ result.val.identify = Some(FilledSector(170))
    /\ result.val.smart_status = Some(TRUE)
    /\ result.val.smart_data = Some(FilledSector(187))
    /\ result.val.smart_thresholds = None

(***************************************************************************)
(* The attribute decoder and the statistics, over SMART sectors built slot *)
(* by slot.  The handle starts with the sectors cached; the SmartInfo is   *)
(* made of the same sectors and the same capacity.                         *)
(***************************************************************************)
\* the six raw bytes of a value below 2^31
Raw6(n) == << n % 256, (n \div 256) % 256, (n \div 65536) % 256, (n \div 16777216) % 256, 0, 0 >>

\* a 12-byte attribute slot: id, flags, current, worst, raw, reserved
AttrSlot(id, raw) == << id, 3, 0, 100, 100 >> \o raw \o << 0 >>

EmptySlot == [i \in 1..12 |-> 0]
\* an empty slot that still carries a stale value
StaleSlot == << 0, 3, 0, 100, 100, 9, 0, 0, 0, 0, 0, 0 >>

\* attribute 12 with raw 7, current 0xFE (not valid) and worst 50
InvalidCurrentSlot == << 12, 3, 0, 254, 50, 7, 0, 0, 0, 0, 0, 0 >>

FirstSlots ==
    { EmptySlot,
      AttrSlot(5, Raw6(3)), AttrSlot(5, Raw6(0)),
      AttrSlot(5, << 255, 255, 255, 255, 0, 0 >>),
      AttrSlot(194, Raw6(25)), AttrSlot(194, Raw6(200)),
      AttrSlot(9, Raw6(1000)),
      AttrSlot(242, Raw6(1000)), AttrSlot(242, << 255, 255, 255, 255, 255, 255 >>) }
SecondSlots ==
    { EmptySlot, StaleSlot,
      AttrSlot(197, Raw6(2)), InvalidCurrentSlot, AttrSlot(9, Raw6(0)),
      AttrSlot(190, Raw6(30)),
      AttrSlot(241, << 0, 0, 0, 0, 128, 0 >>) }
LastSlots ==
    { EmptySlot, AttrSlot(197, Raw6(2000000000)), AttrSlot(231, Raw6(5)),
      AttrSlot(3, Raw6(500)),
      AttrSlot(233, Raw6(30)), AttrSlot(2, Raw6(7)), AttrSlot(194, Raw6(40)) }

\* slot 29 starts at byte 2 + 29 * 12
SmartSectorOf(s0, s1, s29) ==
    [i \in 0..511 |->
        IF i >= 2 /\ i < 14 THEN s0[i - 1]
        ELSE IF i >= 14 /\ i < 26 THEN s1[i - 13]
        ELSE IF i >= 350 /\ i < 362 THEN s29[i - 349]
        ELSE 0]

AttrSectors ==
    { SmartSectorOf(s0, s1, s29) : s0 \in FirstSlots, s1 \in SecondSlots, s29 \in LastSlots }

\* thresholds above the current values of attributes 5 and 197
ThresholdSectorHigh == [Zeros(512) EXCEPT ![2] = 197, ![3] = 200, ![14] = 5, ![15] = 200]

\* attribute 5 twice (36, then 200), and the thresholds 0xFE, 0, 0xFF and 60
ThresholdSectorMixed ==
    [Zeros(512) EXCEPT ![2] = 5, ![3] = 36, ![14] = 5, ![15] = 200,
                       ![26] = 197, ![27] = 254, ![38] = 194, ![39] = 0,
                       ![50] = 9, ![51] = 255, ![62] = 12, ![63] = 60]

AttrThresholds ==
    {None, Some(ThresholdSectorA), Some(ThresholdSectorHigh), Some(ThresholdSectorMixed)}

\* the slots the decoder is called on one by one
AttrSlotIndexes == {0, 1, 2, 29}

AttrInit ==
    /\ \E sector \in AttrSectors, thresholds \in AttrThresholds, live \in BOOLEAN :
         LET size == IF live THEN DiskSize ELSE 0
         IN  /\ disk = Some(Disk(IF live THEN Some("fd") ELSE None,
                                  IF live THEN AtaPassthrough16 ELSE Blob, size,
                                  Some(IdentSmartOn), Some(sector), thresholds, None))
             /\ input = Some(SmartInfo_new(SmartData_new(sector, size),
                                IF thresholds = None THEN None
                                ELSE Some(SmartThresholds_new(thresholds[1]))))
             /\ fds = IF live THEN 1 ELSE 0
    /\ op = "new"
    /\ replies = << >>
    /\ result = Ok(Unit)
    /\ regs = None
    /\ buf = None
    /\ subs = << >>

\* parse_attribute on slot i of the cached SMART sector, as the slot loop calls it
ParseAttribute ==
    /\ disk # None
    /\ \E i \in AttrSlotIndexes, overflow_checks \in BOOLEAN :
         LET attr_data == slice(disk[1].smart_data[1], 2 + i * 12, 12)
             threshold_data == IF disk[1].smart_thresholds = None THEN None
                               ELSE find_threshold(disk[1].smart_thresholds[1], attr_data[0], 0)
         IN  /\ op' = "parse_attribute"
             /\ result' = parse_attribute(attr_data, threshold_data, disk[1].size,
                                          overflow_checks)
             /\ buf' = Some(attr_data)
             /\ replies' = << >>
             /\ regs' = None
             /\ subs' = << >>
    /\ UNCHANGED << disk, input, fds >>

\* SmartInfo::statistics
Statistics ==
    /\ input # None
    /\ \E overflow_checks \in BOOLEAN :
         Returns("statistics", << >>,
                 Ret(statistics(input[1], overflow_checks), disk, None, << >>))
    /\ UNCHANGED << disk, input, fds >>

AttrNext ==
    \/ ParseSmartAttributes
    \/ ParseAttribute
    \/ Statistics

AttrSpec == AttrInit /\ [][AttrNext]_vars

(***************************************************************************)
(* The handle made from a blob file.                                       *)
(***************************************************************************)
\* the blocks the handle's file was written from
FileBlocks == CHOOSE blocks \in BlobFileBlocks : input = Some(FileOf(blocks))

HasBlock(tag) == \E i \in 1..Len(FileBlocks) : FileBlocks[i].tag = tag

\* the payload of the file's block with this tag, empty when there is none
Payload(tag) ==
    IF HasBlock(tag)
    THEN Some(Bytes0(FileBlocks[CHOOSE i \in 1..Len(FileBlocks) : FileBlocks[i].tag = tag].payload))
    ELSE None

\* the file has an SMST block whose four bytes are not all zero
StatusNonzero ==
    HasBlock(TagSmartStatus) /\ \E i \in 0..3 : Payload(TagSmartStatus)[1][i] # 0

\* dialect BLOB, capacity 0, no file, the sector caches are the payloads
BlobHandleShape ==
    IsBlob =>
        /\ disk[1].file = None
        /\ disk[1].size = 0
        /\ disk[1].identify_data = Payload(TagIdentify)
        /\ disk[1].smart_data = Payload(TagSmartData)
        /\ disk[1].smart_thresholds = Payload(TagSmartThresholds)
        /\ disk[1].smart_status = IF HasBlock(TagSmartStatus) THEN Some(StatusNonzero) ELSE None

BlobStatusRefused ==
    /\ IsBlob /\ op = "smart_status" /\ SmartUnsupported
    /\ StatusNonzero
    /\ result = Err(ErrNotSupported)

(***************************************************************************)
(* Descriptors and retries (Spec).                                         *)
(***************************************************************************)
\* the handle came from Disk::open
Opened == disk # None /\ disk[1].disk_type # Blob

CommandOps == {"read_identify", "read_smart_data", "read_smart_thresholds",
               "smart_status", "check_sleep_mode"}

\* C19: a handle from a successful open owns exactly one descriptor until it
\* is dropped; every exit path of open releases the descriptor it acquired,
\* so no descriptor is open while there is no handle; a blob handle owns no
\* descriptor, and no operation on it asks for one.
C19_DescriptorOwnership ==
    /\ Opened => (disk[1].file # None /\ fds = 1)
    /\ disk = None => fds = 0
    /\ IsBlob => (disk[1].file = None /\ fds = 0)
    /\ (IsBlob /\ op \in CommandOps) => result # Err(ErrPanic)
    /\ (op = "open" /\ ~result.ok) => (disk = None /\ fds = 0)

\* a command on a handle that open built: one descriptor is open
C19_Witness ==
    /\ Opened /\ op = "smart_status" /\ Len(subs) = 1
    /\ disk[1].file = Some("fd")
    /\ fds = 1

\* C20: nothing is retried: each call of read_identify, read_smart_data,
\* read_smart_thresholds, smart_status or check_sleep_mode submits at most one
\* ATA command, a failed submission is what the call returns, and the one
\* command is in the handle's own dialect.
C20_NothingRetried ==
    (disk # None /\ op \in CommandOps)
    => /\ Len(subs) <= 1
       /\ (Len(subs) = 1 /\ ~replies[1].ok) => result = Err(ErrIoOs)
       /\ Len(subs) = 1 =>
             subs[1].cmd_len = (IF disk[1].disk_type = AtaPassthrough16 THEN 16 ELSE 12)

\* read_identify on ATA_PT12 whose one submission failed: the failure is returned
C20_Witness ==
    /\ disk # None /\ disk[1].disk_type = AtaPassthrough12
    /\ op = "read_identify"
    /\ Len(subs) = 1 /\ ~replies[1].ok
    /\ subs[1].cmd_len = 12
    /\ result = Err(ErrIoOs)

\* C21: probing happens only inside open, at most once per dialect: an open
\* makes at most two IDENTIFY attempts, the second in the other dialect, and
\* returns; every later operation submits at most once; and from open to
\* drop the handle's disk_type and capacity never change.
C21_ProbeOnlyInOpen ==
    [][ /\ op' = "open" =>
              /\ Len(subs') <= 2
              /\ \A i \in 1..Len(subs') : subs'[i].cdb[IF i = 1 THEN 14 ELSE 9] = IdentifyDevice
              /\ Len(subs') = 2 => (subs'[1].cmd_len = 16 /\ subs'[2].cmd_len = 12)
        /\ (op' # "open" /\ disk' # None) => Len(subs') <= 1
        /\ (disk # None /\ disk' # None) =>
              /\ disk'[1].disk_type = disk[1].disk_type
              /\ disk'[1].size = disk[1].size ]_vars

\* an open whose two probes both failed: two attempts, dialect NONE
C21_Witness ==
    /\ op = "open" /\ result.ok
    /\ Len(subs) = 2
    /\ disk[1].disk_type = DiskTypeNone
    /\ disk[1].size = DiskSize

(***************************************************************************)
(* Claims about the attribute decoder and the statistics.                  *)
(***************************************************************************)
\* the SMART sector the handle has cached
Cached == disk[1].smart_data[1]

SlotId(sector, i) == sector[2 + i * 12]
\* the low 32 bits of the raw value of slot i
SlotRaw32(sector, i) ==
    Norm(<< sector[2 + i * 12 + 5], sector[2 + i * 12 + 6],
            sector[2 + i * 12 + 7], sector[2 + i * 12 + 8] >>)

\* the nonzero id bytes of the 30 slots, in slot order
UsedIds(sector) == SelectSeq([k \in 1..30 |-> SlotId(sector, k - 1)], LAMBDA id : id # 0)

RecordIds(records) == [k \in 1..Len(records) |-> records[k].id]

\* C13: for every SMART DATA block, parse_smart_attributes emits no record
\* for a slot whose id byte is 0 and exactly one record for every slot whose
\* id byte is nonzero, in slot order; the number of records is the number
\* of nonzero-id slots.
C13_OneRecordPerUsedSlot ==
    op = "parse_smart_attributes"
    => (result.ok /\ RecordIds(result.val) = UsedIds(Cached))

\* what does hold: whenever the call returns, its records are those of the
\* used slots, in slot order
RecordsOfUsedSlots ==
    (op = "parse_smart_attributes" /\ result.ok)
    => RecordIds(result.val) = UsedIds(Cached)

\* a stale empty slot between two used ones is skipped
RecordsOfUsedSlotsWitness ==
    /\ op = "parse_smart_attributes" /\ result.ok
    /\ SlotId(Cached, 1) = 0 /\ Cached[2 + 12 + 5] = 9
    /\ RecordIds(result.val) = << 194, 231 >>

\* the call panics on a block with attribute 241 of raw value 2^39
ParsePanics ==
    /\ op = "parse_smart_attributes" /\ result = Err(ErrPanic)
    /\ UsedIds(Cached) = << 5, 241 >>

\* the temperature the decoder computes from the slot in buf, in millikelvin
SlotMilliKelvin == (buf[1][5] + 256 * buf[1][6]) * 1000 + 273150

InRange(record) ==
    /\ ~BigLess(record.pretty_value, Digits(MKELVIN_MIN))
    /\ ~BigLess(Digits(MKELVIN_MAX), record.pretty_value)

\* C14: every record the attribute decoder emits with the unit MilliKelvin
\* has its pretty_value within [258150, 373150]; a temperature attribute
\* whose computed value lies outside that range is emitted with the unit
\* Unknown.
C14_TemperatureRange ==
    /\ (op = "parse_attribute" /\ result.ok /\ result.val # None
         /\ result.val[1].pretty_unit = "MilliKelvin")
          => InRange(result.val[1])
    /\ (op = "parse_attribute" /\ buf[1][0] \in {190, 194, 231}
         /\ (SlotMilliKelvin < 258150 \/ SlotMilliKelvin > 373150))
          => /\ result.ok /\ result.val # None
             /\ result.val[1].pretty_unit = "Unknown"
             /\ result.val[1].pretty_value = Digits(SlotMilliKelvin)
    /\ (op = "parse_smart_attributes" /\ result.ok)
          => \A k \in 1..Len(result.val) :
                result.val[k].pretty_unit = "MilliKelvin" => InRange(result.val[k])

\* attribute 194 with the raw value 200: 473150 mK, emitted as Unknown
C14_Witness ==
    /\ op = "parse_attribute" /\ buf[1][0] = 194 /\ buf[1][5] = 200
    /\ result.ok /\ result.val # None
    /\ result.val[1].pretty_unit = "Unknown"
    /\ result.val[1].pretty_value = Digits(473150)

\* C15: every emitted record with id 5 or 197 and pretty_value > 0 has warn
\* set, for every disk capacity (0 included) and with or without a
\* thresholds block.
C15_BadSectorWarns ==
    (op = "parse_attribute" /\ result.ok /\ result.val # None
     /\ result.val[1].id \in {5, 197} /\ result.val[1].pretty_value # << >>)
    => result.val[1].warn

\* what does hold: with a known capacity, a count within the capacity warns
BadSectorWarnsWithinCapacity ==
    (op = "parse_attribute" /\ result.ok /\ result.val # None
     /\ result.val[1].id \in {5, 197} /\ result.val[1].pretty_value # << >>
     /\ disk[1].size > 0 /\ result.val[1].pretty_unit = "Sectors")
    => result.val[1].warn

\* on a handle of capacity 0, three reallocated sectors and no warning
NoWarnWithoutCapacity ==
    /\ op = "parse_attribute" /\ result.ok /\ result.val # None
    /\ disk[1].size = 0 /\ disk[1].smart_thresholds = None
    /\ result.val[1].id = 5 /\ result.val[1].pretty_value = Digits(3)
    /\ ~result.val[1].warn

\* the sectors of the SmartInfo
InfoSector == input[1].data.raw

\* the pretty value of the last slot with this id, from the sector's bytes
SlotPretty(sector, id) ==
    LET at == {i \in 0..29 : SlotId(sector, i) = id}
    IN  IF at = {} THEN None
        ELSE Some(SlotRaw32(sector, CHOOSE i \in at : \A j \in at : j <= i))

ExpectedBadSectors(sector) ==
    LET r == SlotPretty(sector, 5)
        p == SlotPretty(sector, 197)
    IN  IF r # None /\ p # None THEN Some(BigSum(r[1], p[1]))
        ELSE IF r # None THEN r
        ELSE p

\* C17: bad_sectors is the pretty value of attribute 5 plus the pretty value
\* of attribute 197 when both are present, the pretty value of the one that
\* is present when only one is, and absent when neither is.
C17_BadSectors ==
    op = "statistics"
    => (result.ok /\ result.val.bad_sectors = ExpectedBadSectors(InfoSector))

\* what does hold: whenever the call returns, the count is as stated
BadSectorsWhenReturned ==
    (op = "statistics" /\ result.ok)
    => result.val.bad_sectors = ExpectedBadSectors(InfoSector)

\* 3 reallocated and 2 pending sectors: 5
BadSectorsWitness ==
    /\ op = "statistics" /\ result.ok
    /\ SlotPretty(InfoSector, 5) = Some(Digits(3))
    /\ SlotPretty(InfoSector, 197) = Some(Digits(2))
    /\ result.val.bad_sectors = Some(Digits(5))

\* the statistics panic on attribute 241 of raw value 2^39 next to attribute 5
StatisticsPanic ==
    /\ op = "statistics" /\ result = Err(ErrPanic)
    /\ UsedIds(InfoSector) = << 5, 241 >>

\* the decoder's record of slot i failed the plausibility check: the table
\* gives the attribute a unit and the record has none left
FailedValidation(record) ==
    /\ ATTRIBUTE_INFO(record.id) # None
    /\ ATTRIBUTE_INFO(record.id)[1].unit # "Unknown"
    /\ record.pretty_unit = "Unknown"

\* some record with one of these ids is there and passed validation
Usable(records, ids) ==
    \E k \in 1..Len(records) : records[k].id \in ids /\ ~FailedValidation(records[k])

Present(records, ids) == \E k \in 1..Len(records) : records[k].id \in ids

\* the records the decoder emits for the SmartInfo in a build that wraps
InfoRecords == SmartInfo_parse_attributes(input[1], FALSE).val

\* C18: each field of the statistics is absent whenever its attribute is
\* missing or failed the plausibility validation; no field is reported from
\* an attribute that failed validation.
C18_AbsentWhenInvalid ==
    (op = "statistics" /\ result.ok)
    => /\ ~Usable(InfoRecords, {5, 197}) => result.val.bad_sectors = None
       /\ ~Usable(InfoRecords, {9}) => result.val.power_on_duration = None
       /\ ~Usable(InfoRecords, {12}) => result.val.power_cycle_count = None
       /\ ~Usable(InfoRecords, {190, 194, 231}) => result.val.temperature = None

\* what does hold: a field is absent exactly when its attribute is missing
AbsentIffMissing ==
    (op = "statistics" /\ result.ok)
    => /\ result.val.bad_sectors = None <=> ~Present(InfoRecords, {5, 197})
       /\ result.val.power_on_duration = None <=> ~Present(InfoRecords, {9})
       /\ result.val.power_cycle_count = None <=> ~Present(InfoRecords, {12})
       /\ result.val.temperature = None <=> ~Present(InfoRecords, {190, 194, 231})

\* attribute 194 of 200 degrees failed validation and is reported all the same
InvalidTemperatureReported ==
    /\ op = "statistics" /\ result.ok
    /\ UsedIds(InfoSector) = << 194 >>
    /\ InfoRecords[1].pretty_unit = "Unknown"
    /\ result.val.temperature = Some([celsius_thousandths |-> 200000])

\* the slot the decoder was called on, and the record it emitted
Emitted == op = "parse_attribute" /\ result.ok /\ result.val # None
Slot == buf[1]
SlotV == fourtyeight_of(slice(Slot, 5, 6))
Record == result.val[1]

\* the pretty-value rule of each name, in exact arithmetic
PrettyRule(name, v, current) ==
    CASE name = "spin-up-time" -> LowBytes(v, 2)
      [] name \in {"airflow-temperature-celsius", "temperature-celsius",
                   "temperature-celsius-2"} ->
           BigAdd(BigMul(LowBytes(v, 2), 1000), 273150)
      [] name = "temperature-centi-celsius" -> BigAdd(BigMul(LowBytes(v, 2), 100), 273150)
      [] name \in {"power-on-minutes", "workload-timer"} -> BigMul(v, 60000)
      [] name \in {"power-on-seconds", "power-on-seconds-2"} -> BigMul(v, 1000)
      [] name = "power-on-half-minutes" -> BigMul(v, 30000)
      [] name \in {"power-on-hours", "loaded-hours", "head-flying-hours"} ->
           BigMul(LowBytes(v, 4), 3600000)
      [] name \in {"reallocated-sector-count", "current-pending-sector"} -> LowBytes(v, 4)
      [] name \in {"endurance-remaining", "available-reserved-space"} -> Digits(current)
      [] name \in {"total-lbas-written", "total-lbas-read"} ->
           BigDiv(BigMul(BigMul(v, 65536), 512), 1000000)
      [] name \in {"timed-workload-media-wear", "timed-workload-host-reads"} ->
           BigDiv(v, 1024)
      [] OTHER -> v

\* C24: every record parse_attribute emits has the pretty_value its name's rule
\* assigns to the 48-bit little-endian raw value v, and v itself for a name
\* without a rule of its own, whatever the unit.
C24_PrettyValue ==
    Emitted => Record.pretty_value = PrettyRule(Record.name, SlotV, Slot[3])

\* the unit the table gives the slot's id
TableUnit ==
    IF ATTRIBUTE_INFO(Slot[0]) = None THEN "Unknown" ELSE ATTRIBUTE_INFO(Slot[0])[1].unit
\* the products of the rule fit 64 bits
FitsU64 ==
    Record.name \in {"total-lbas-written", "total-lbas-read"}
        => Len(BigMul(BigMul(SlotV, 65536), 512)) <= 8

\* what does hold: the rule's value when the table's unit is not Unknown and
\* the products fit 64 bits, and 0 for every id whose unit in the table is
\* Unknown
PrettyValueWhenUnitKnown ==
    Emitted =>
        /\ TableUnit = "Unknown" => Record.pretty_value = << >>
        /\ (TableUnit # "Unknown" /\ FitsU64)
              => Record.pretty_value = PrettyRule(Record.name, SlotV, Slot[3])

\* power-on-hours with raw 1000 is 3 600 000 000 ms
PowerOnHoursPretty ==
    /\ Emitted /\ Slot[0] = 9 /\ SlotV = Digits(1000)
    /\ Record.pretty_value = BigMul(Digits(1000), 3600000)
\* power-on-seconds-2 with raw 30 is left at 0
PowerOnSecondsZero ==
    /\ Emitted /\ Record.name = "power-on-seconds-2" /\ SlotV = Digits(30)
    /\ Record.pretty_value = << >>
\* throughput-performance, a name without a rule, with raw 7 is left at 0
NoRuleZero ==
    /\ Emitted /\ Record.name = "throughput-performance" /\ SlotV = Digits(7)
    /\ Record.pretty_value = << >>

\* the decoder was called on a slot of total-lbas-written or total-lbas-read
LbasSlot == op = "parse_attribute" /\ Slot[0] \in {241, 242}
LbasProduct == BigMul(BigMul(SlotV, 65536), 512)

\* C25: for every 48-bit raw value v the pretty value of total-lbas-written
\* and total-lbas-read is computed without overflowing u64 and is the exact
\* quotient floor(v * 65536 * 512 / 1000000); v * 60000, v * 30000 and
\* v * 1000 fit 64 bits too.
C25_NoOverflow ==
    /\ LbasSlot => /\ Emitted
                   /\ Len(LbasProduct) <= 8
                   /\ Record.pretty_value = BigDiv(LbasProduct, 1000000)
    /\ op = "parse_attribute" => /\ Len(BigMul(SlotV, 60000)) <= 8
                                 /\ Len(BigMul(SlotV, 30000)) <= 8
                                 /\ Len(BigMul(SlotV, 1000)) <= 8

\* what does hold: the quotient is exact while v * 65536 * 512 fits 64 bits
\* (v < 2^39); above that the call panics or the quotient is taken of the
\* wrapped product; the timer products always fit
LbasExactBelowBound ==
    /\ LbasSlot =>
          IF Len(LbasProduct) <= 8
          THEN Emitted /\ Record.pretty_value = BigDiv(LbasProduct, 1000000)
          ELSE \/ result = Err(ErrPanic)
               \/ Emitted /\ Record.pretty_value = BigDiv(LowBytes(LbasProduct, 8), 1000000)
    /\ op = "parse_attribute" => /\ Len(BigMul(SlotV, 60000)) <= 8
                                 /\ Len(BigMul(SlotV, 30000)) <= 8
                                 /\ Len(BigMul(SlotV, 1000)) <= 8

\* raw 1000 gives 33554 MB
LbasExact == LbasSlot /\ SlotV = Digits(1000) /\ Emitted /\ Record.pretty_value = Digits(33554)
\* raw 2^39: the product is 2^64
LbasPanics ==
    LbasSlot /\ SlotV = << 0, 0, 0, 0, 128 >> /\ result = Err(ErrPanic)
LbasWrapped ==
    LbasSlot /\ SlotV = << 0, 0, 0, 0, 128 >> /\ Emitted /\ Record.pretty_value = << >>
\* the largest raw value: the timer products fit, the lbas product does not
LargestRaw ==
    /\ LbasSlot /\ SlotV = << 255, 255, 255, 255, 255, 255 >>
    /\ Len(BigMul(SlotV, 60000)) = 8 /\ Len(LbasProduct) > 8

\* the thresholds slots whose byte 0 is the id of the decoded slot
ThresholdBlock == disk[1].smart_thresholds
MatchingSlots ==
    IF ThresholdBlock = None THEN {}
    ELSE {j \in 0..29 : ThresholdBlock[1][2 + j * 12] = Slot[0]}
FirstMatching == CHOOSE j \in MatchingSlots : \A k \in MatchingSlots : j <= k
ByteValid(b) == b >= 1 /\ b <= 253

ThresholdRules ==
    IF MatchingSlots = {}
    THEN /\ ~Record.threshold_valid
         /\ ~Record.good_now_valid
         /\ ~Record.good_in_the_past_valid
    ELSE LET threshold == ThresholdBlock[1][2 + FirstMatching * 12 + 1]
         IN  /\ Record.threshold = threshold
             /\ Record.threshold_valid <=> threshold # 254
             /\ Record.good_now_valid <=> (ByteValid(threshold) /\ ByteValid(Slot[3]))
             /\ Record.good_now_valid => (Record.good_now <=> Slot[3] > threshold)
             /\ Record.good_in_the_past_valid <=> (ByteValid(threshold) /\ ByteValid(Slot[4]))
             /\ Record.good_in_the_past_valid => (Record.good_in_the_past <=> Slot[4] > threshold)

\* C26: the threshold is byte 1 of the first thresholds slot whose byte 0 is
\* the attribute id; threshold_valid iff there is one and it is not 0xFE;
\* good_now_valid iff 1 <= threshold <= 0xFD and current is valid, and then
\* good_now = current > threshold; likewise good_in_the_past with worst; with
\* no thresholds block or no matching slot the record is still emitted, with
\* the three validity flags false.
C26_ThresholdRules ==
    (op = "parse_attribute" /\ Slot[0] # 0) => (Emitted /\ ThresholdRules)

\* the same for every call that returns
ThresholdRulesWhenReturned ==
    (op = "parse_attribute" /\ Slot[0] # 0 /\ result.ok) => (Emitted /\ ThresholdRules)

\* attribute 5 has two thresholds slots, 36 and 200: the first one is used
FirstThresholdSlotUsed ==
    /\ Emitted /\ Slot[0] = 5 /\ Cardinality(MatchingSlots) = 2
    /\ Record.threshold = 36 /\ Record.good_now_valid /\ Record.good_now
\* threshold 0xFE: not valid, nothing compared
ThresholdReserved ==
    /\ Emitted /\ Slot[0] = 197 /\ Record.threshold = 254
    /\ ~Record.threshold_valid /\ ~Record.good_now_valid /\ ~Record.good_in_the_past_valid
\* threshold 0: valid, nothing compared
ThresholdZero ==
    /\ Emitted /\ Slot[0] = 194 /\ MatchingSlots # {} /\ Record.threshold = 0
    /\ Record.threshold_valid /\ ~Record.good_now_valid
\* current 0xFE is not valid, worst 50 is below the threshold 60
OnlyWorstCompared ==
    /\ Emitted /\ Slot[0] = 12 /\ Record.threshold = 60
    /\ ~Record.good_now_valid
    /\ Record.good_in_the_past_valid /\ ~Record.good_in_the_past
\* no thresholds block
NoThresholdsBlock ==
    /\ Emitted /\ ThresholdBlock = None
    /\ ~Record.threshold_valid /\ ~Record.good_now_valid /\ ~Record.good_in_the_past_valid
\* a thresholds block without a slot for the id, and a decoder that panics
NoMatchingSlot == Emitted /\ ThresholdBlock # None /\ MatchingSlots = {}
NoRecordOnPanic ==
    op = "parse_attribute" /\ Slot[0] = 241 /\ ThresholdBlock = None /\ result = Err(ErrPanic)

\* the pretty value is one of the two "not available" values or exceeds the
\* number of 512-byte sectors of the capacity
SectorCountImplausible ==
    \/ Record.pretty_value = << 255, 255, 255, 255 >>
    \/ Record.pretty_value = << 255, 255, 255, 255, 255, 255 >>
    \/ BigLess(Digits(disk[1].size \div 512), Record.pretty_value)

\* C27: for every capacity, 0 included, an attribute whose unit is Sectors is
\* emitted with unit Unknown whenever its pretty_value is 0xFFFFFFFF or
\* 0xFFFFFFFFFFFF or exceeds capacity / 512, and with unit Sectors otherwise.
C27_SectorPlausibility ==
    (Emitted /\ TableUnit = "Sectors")
    => Record.pretty_unit = (IF SectorCountImplausible THEN "Unknown" ELSE "Sectors")

\* what does hold: the rule for a capacity above 0, and no downgrade at all
\* for capacity 0
SectorPlausibilityWithCapacity ==
    (Emitted /\ TableUnit = "Sectors")
    => Record.pretty_unit = (IF disk[1].size > 0 /\ SectorCountImplausible
                             THEN "Unknown" ELSE "Sectors")

\* capacity 0: 0xFFFFFFFF reallocated sectors keep the unit Sectors
SentinelKeptWithoutCapacity ==
    /\ Emitted /\ Slot[0] = 5 /\ disk[1].size = 0
    /\ Record.pretty_value = << 255, 255, 255, 255 >>
    /\ Record.pretty_unit = "Sectors"
\* capacity 1000204800: 2000000000 pending sectors are more than the disk has
AboveCapacityDowngraded ==
    /\ Emitted /\ Slot[0] = 197 /\ disk[1].size = DiskSize
    /\ Record.pretty_value = Digits(2000000000)
    /\ Record.pretty_unit = "Unknown"
WithinCapacityKept ==
    /\ Emitted /\ Slot[0] = 5 /\ disk[1].size = DiskSize
    /\ Record.pretty_value = Digits(3)
    /\ Record.pretty_unit = "Sectors"

\* the slots of the SmartInfo's sector that hold one of these ids
SlotsWith(ids) == {i \in 0..29 : SlotId(InfoSector, i) \in ids}
FirstSlotWith(ids) == CHOOSE i \in SlotsWith(ids) : \A k \in SlotsWith(ids) : i <= k
\* the temperature of slot i: the low 16 bits of its raw value, in degrees
SlotTemperature(i) ==
    Some([celsius_thousandths |->
            (InfoSector[2 + i * 12 + 5] + 256 * InfoSector[2 + i * 12 + 6]) * 1000])
\* the first of 194, 190, 231 that some slot holds
PreferredId ==
    IF SlotsWith({194}) # {} THEN 194 ELSE IF SlotsWith({190}) # {} THEN 190 ELSE 231

\* C28: the temperature of the statistics is taken from the first present
\* attribute in the priority order 194, 190, 231, whatever the order of the
\* slots, and is absent when none of the three is present.
C28_TemperaturePriority ==
    (op = "statistics" /\ result.ok)
    => result.val.temperature =
          (IF SlotsWith({194, 190, 231}) = {} THEN None
           ELSE SlotTemperature(FirstSlotWith({PreferredId})))

\* what does hold: the first slot, in slot order, that holds any of the three
TemperatureInSlotOrder ==
    (op = "statistics" /\ result.ok)
    => result.val.temperature =
          (IF SlotsWith({194, 190, 231}) = {} THEN None
           ELSE SlotTemperature(FirstSlotWith({194, 190, 231})))

\* 190 (30 degrees) in slot 1 and 194 (40 degrees) in slot 29: 30 is reported
SlotOrderDecides ==
    /\ op = "statistics" /\ result.ok
    /\ UsedIds(InfoSector) = << 190, 194 >>
    /\ result.val.temperature = Some([celsius_thousandths |-> 30000])
\* 194 (25 degrees) in slot 0 before 190 and 231
PreferredFirst ==
    /\ op = "statistics" /\ result.ok
    /\ UsedIds(InfoSector) = << 194, 190, 231 >>
    /\ result.val.temperature = Some([celsius_thousandths |-> 25000])
NoTemperature ==
    /\ op = "statistics" /\ result.ok
    /\ UsedIds(InfoSector) = << 5, 197 >>
    /\ result.val.temperature = None

\* the four caches of a handle
Caches(d) == << d.identify_data, d.smart_data, d.smart_thresholds, d.smart_status >>
ReadOps == {"read_identify", "read_smart_data", "read_smart_thresholds", "smart_status"}

\* C29: when read_identify, read_smart_data, read_smart_thresholds or
\* smart_status returns an error, the identify, smart_data and
\* smart_thresholds caches and the cached smart_status are exactly what they
\* were before the call; a cache is written only by the successful call of
\* its own read operation.
C29_CachesFramed ==
    [][ (disk # None /\ disk' # None) =>
          /\ (op' \in ReadOps /\ ~result'.ok) => Caches(disk'[1]) = Caches(disk[1])
          /\ disk'[1].identify_data # disk[1].identify_data
                => (op' = "read_identify" /\ result'.ok)
          /\ disk'[1].smart_data # disk[1].smart_data
                => (op' = "read_smart_data" /\ result'.ok)
          /\ disk'[1].smart_thresholds # disk[1].smart_thresholds
                => (op' = "read_smart_thresholds" /\ result'.ok)
          /\ disk'[1].smart_status # disk[1].smart_status
                => (op' = "smart_status" /\ result'.ok) ]_vars

\* a status read with unrecognised status bytes on a handle whose caches are
\* all filled
C29_Witness ==
    /\ op = "smart_status" /\ result = Err(ErrIoInvalidData) /\ Len(subs) = 1
    /\ disk[1].identify_data # None /\ disk[1].smart_data # None
    /\ disk[1].smart_thresholds # None /\ disk[1].smart_status # None

\* the other errors with a filled cache: a failed submission, an all-zero
\* IDENTIFY sector, SMART not available
FailedSubmissionKeepsCache ==
    /\ op = "read_smart_data" /\ result = Err(ErrIoOs) /\ Len(subs) = 1
    /\ disk[1].smart_data # None
AllZeroIdentifyKeepsCache ==
    /\ op = "read_identify" /\ result = Err(ErrIoInvalidData)
    /\ disk[1].identify_data # None
PreconditionKeepsCache ==
    /\ op = "read_smart_thresholds" /\ ~result.ok /\ subs = << >>
    /\ disk[1].identify_data # None

\* the first pass of parse_blob accepted the file
ValidationAccepts == op = "parse_blob" /\ blob_validate(input[1].data, 0, {}).ok
Visited == copy_visits(input[1].data, 0)
TagsAndSizes(blocks) == [i \in 1..Len(blocks) |-> << blocks[i].tag, blocks[i].size >>]

\* C30: whenever the validation pass of parse_blob accepts, the copy pass
\* visits the same sequence of (tag, size) blocks and reads every payload
\* inside the input, never past its end; a fragment shorter than 8 bytes
\* after the last block is ignored by both passes and is no reason to reject.
C30_PassesAgree ==
    /\ ValidationAccepts =>
          /\ result.ok
          /\ Visited = validate_visits(input[1].data, 0, {})
          /\ TagsAndSizes(Visited) = TagsAndSizes(input[1].shape.blocks)
          /\ \A i \in 1..Len(Visited) :
                Visited[i].at + FixedSize(Visited[i].tag) <= len(input[1].data)
    /\ (op = "parse_blob" /\ WellFormedBlocks(input[1].shape)) => ValidationAccepts

\* three blocks and a fragment of 7 bytes, accepted and copied
C30_Witness ==
    /\ ValidationAccepts /\ result.ok
    /\ Len(input[1].shape.blocks) = 3 /\ input[1].shape.trail = HeaderLen - 1
    /\ Len(Visited) = 3
    /\ result.val.smart_data # None

=============================================================================
